---------------------------- MODULE Spec2Model ----------------------------
(***************************************************************************)
(* Model of the QUIC gateway client (laotiannai/quic_gwclient):            *)
(*   - proto: the 20-byte response header codec (ResponseHeader)           *)
(*   - client: parseMessage, the handshakes, the transfer exchanges and    *)
(*     SendTransferRequestWithDownload (read loop + segmentation pass)     *)
(* Bytes are integers 0..255, byte strings are sequences of bytes.         *)
(* Go's zero-based half-open slices s[a:b] are written Slice(s, a, b).     *)
(***************************************************************************)
EXTENDS Integers, Sequences, FiniteSets, TLC

VARIABLES
    \* ---- segmentation pass of SendTransferRequestWithDownload
    totalRawResponse,   \* the raw accumulator
    remainingRaw,       \* the part of the accumulator still to segment
    pureDataBuffer,     \* the pure payload built so far
    segPc,              \* "run" | "done" | "off" : position of the segmentation loop
    segLast,            \* which branch the last loop iteration took
    inGarbage,          \* input: the bytes put before the frames
    inFrames,           \* input: the frames [cmd, result, body] the peer framed
    \* ---- the client object
    conn,               \* c.conn: "nil" | "open"
    connCtxErr,         \* c.conn.Context().Err() != nil
    stream,             \* c.stream: "nil" | "open" | "closed" (closed, not nil)
    mu,                 \* c.mu: "free" | "held"
    configMaxRetries,   \* c.config.MaxRetries
    \* ---- SendTransferRequestWithDownload
    dlPc,               \* "off" | "start" | "read" | "finish" | "done" | "panic" | "deadlock"
    optMaxRetries,      \* options.MaxRetries
    optMaxDownloadSize, \* options.MaxDownloadSize
    optReadTimeout,     \* options.ReadTimeout (seconds)
    retries,
    noDataCount,
    isComplete,
    sinceLastRead,      \* time.Since(lastReadTime), kept up to the threshold + 1
    readTimeout,        \* the deadline armed for the next read (seconds)
    receivedBytes,      \* result.ReceivedBytes
    sentBytes,          \* result.SentBytes
    wire,               \* the bytes the peer has not delivered yet
    lastRead,           \* the last Read: [n, err, start] (start: bytes received before it)
    dlEnd,              \* how the read loop ended
    dlErr,              \* the returned error: "none" until the call returns, "nil" for nil
    dlResult,           \* the returned *DownloadResult (nil: its field nil is TRUE)
    totalPureResponse,  \* the pkg build's accumulator of chunk[20:]
    packetCount,        \* the reads that returned bytes
    \* ---- SendTransferRequestNoAES
    xfPc,               \* "off" | "start" | "loop" | "done" | "deadlock"
    retry,              \* the loop variable
    responseBytes,      \* the response accumulated so far
    xfWire,             \* the bytes the peer has not delivered yet on the stream
    attempts,           \* what happened in each pass of the loop: [op, cause]
    xfSent,             \* sentBytes
    xfReceived,         \* receivedBytes
    xfErr,              \* the returned error [op, cause]
    xfResp,             \* the returned response bytes (nil and empty are both <<>>)
    \* ---- SendInitRequestNoAES / SendInitRequest
    hsPc,               \* "off" | "start" | "read" | "done" | "panic" | "oom"
    hsKind,             \* "noaes" | "aes"
    hsRetry,            \* the loop variable
    hsWire,             \* the bytes the peer has not delivered yet on the stream
    hsChunk,            \* the bytes the last Read returned
    hsSent,             \* sentBytes
    hsReceived,         \* receivedBytes
    hsReads,            \* calls of c.stream.Read made by the handshake
    hsWrites,           \* calls of c.stream.Write(initBytes) made by the handshake
    hsErr,              \* the returned error: "none" until the call returns
    \* ---- concurrent callers of one client
    callOp,             \* the operation each caller is in ("none" outside a call)
    callPc,             \* where each caller is: "idle", "wait", "run", a later
                        \* step of its operation, "exit", "blocked", "panic"
    callRetry,          \* the loop counter (retry, retries) of each caller
    \* ---- the connection/stream pair as objects (Connect, Close)
    connObj,            \* c.conn: 0 for nil, else the number of the connection
    streamObj,          \* c.stream: [id, on], id 0 for nil, on: its connection
    closedConns,        \* the connections closed so far
    closedStreams,      \* the streams closed so far
    dialed,             \* connections dialed so far
    streamsOpened,      \* streams opened so far
    cnLast,             \* the last call: [op, err, prevConn, prevStream]
    cnVariant,          \* the client built: "locked" (c.mu) | "lockfree"
    cnCalls,            \* the calls in progress on the lock-free client, per
                        \* goroutine: [op, pc, retry, conn, strm, ret,
                        \* prevConn, prevStream]
    peerClosed,         \* the connections the peer has ended
    \* ---- the header codec (proto.TransferHeader, proto.ResponseHeader)
    cdPc,               \* "idle" | "header" | "marshalled" | "unmarshalled" | "raw" | "decoded"
    cdKind,             \* "TransferHeader" | "ResponseHeader", or the decoding path
    cdHeader,           \* the header given to Marshal
    cdBytes,            \* the bytes Marshal produced, or the received buffer
    cdOut,              \* the header UnMarshal filled in, or what the path returned
    \* ---- utils.EncryptAES / utils.DecryptAES
    aesPc,              \* "idle" | "plain" | "encrypted" | "received" | "decrypted"
    aesKey,             \* key
    aesPlain,           \* plaintext given to EncryptAES
    aesCipher,          \* ciphertext: EncryptAES's result, or bytes off the wire
    aesOut,             \* DecryptAES's outcome: [kind, data]
    \* ---- parseChunkedBody
    chPc,               \* "idle" | "body" | "parsed"
    chIn,               \* what the body was built from: [chunks, upper, trailer, cut]
    chData,             \* chunkedBody
    chOut,              \* parseChunkedBody's outcome: [kind, data]
    \* ---- isHTTPResponse / parseHTTPResponse
    httpPc,             \* "idle" | "payload"
    httpIn,             \* what the payload was built from
    httpData,           \* data
    httpIs,             \* isHTTPResponse's result: "none" before the call
    httpOut,            \* parseHTTPResponse's outcome: [kind, StatusCode, Headers, Body]
    \* ---- NewTransferClient
    ncPc,               \* "idle" | "config" | "new"
    ncAddr,             \* serverAddr
    ncConfig,           \* the Config the caller passes
    ncClient,           \* the returned client: [nil, serverAddr, config]
    \* ---- SendTransferRequestWithDownload after the segmentation pass
    svPc,               \* "idle" | "segmented" | "returned"
    svVariant,          \* which download.go is built: "client" | "pkg"
    svOpts,             \* options: [DetectHTTP, SaveToFile, SaveDir, FileNamePrefix]
    svPure,             \* result.PureData
    svPackets,          \* packetCount: the reads that returned bytes
    svFs,               \* what the file system does: [mkdir, write] succeed or not
    svResult,           \* the returned result: [HTTPInfo, MD5Sum, FilePath, err]
    svFile,             \* the file written: [path, data], path "" while there is none
    \* ---- SendTransferRequest (the encrypted exchange)
    enPc,               \* "idle" | "start" | "read" | "failed" | "done" | "panic" | "oom"
    enKey,              \* initAESKey
    enIn,               \* input: the messages [cmd, plain] the peer sends
    enWire,             \* the bytes the peer has not delivered yet
    enBuf,              \* responseBuffer[:currentSize]
    enResp,             \* the bodies appended to responseBytes, one entry per append
    enReads,            \* reads made so far
    \* ---- SendQuicRequest
    apPc,               \* "idle" | "start" | "connect" | "init" | "transfer" | "close"
                        \* | "done" | "blocked"
    apOpts,             \* the RequestOptions
    apI,                \* the loop variable i of the connect loop
    apConnErr,          \* err after the last c.Connect: "nil" or "connect"
    apTrace,            \* the calls made on the client so far: [op, ok]
    apResult,           \* the RequestResult: [Success, Error]
    \* ---- a function of the package applied to one input
    puPc,               \* "idle" | "input" | "applied"
    puIn,               \* the argument
    puOut               \* the value returned

segVars == <<totalRawResponse, remainingRaw, pureDataBuffer, segPc, segLast,
             inGarbage, inFrames>>

cliVars == <<conn, connCtxErr, stream, mu, configMaxRetries>>

dlVars == <<dlPc, optMaxRetries, optMaxDownloadSize, optReadTimeout, retries,
            noDataCount, isComplete, sinceLastRead, readTimeout, receivedBytes,
            sentBytes, wire, lastRead, dlEnd, dlErr, dlResult, totalPureResponse,
            packetCount>>

xfVars == <<xfPc, retry, responseBytes, xfWire, attempts, xfSent, xfReceived,
            xfErr, xfResp>>

hsVars == <<hsPc, hsKind, hsRetry, hsWire, hsChunk, hsSent, hsReceived, hsReads,
           hsWrites, hsErr>>

ccVars == <<callOp, callPc, callRetry>>

ctVars == <<connObj, streamObj, closedConns, closedStreams, dialed, streamsOpened, cnLast,
           cnVariant, cnCalls, peerClosed>>

\* the variables of the specifications further down
cdVars == <<cdPc, cdKind, cdHeader, cdBytes, cdOut>>

aesVars == <<aesPc, aesKey, aesPlain, aesCipher, aesOut>>

chVars == <<chPc, chIn, chData, chOut>>

httpVars == <<httpPc, httpIn, httpData, httpIs, httpOut>>

ncVars == <<ncPc, ncAddr, ncConfig, ncClient>>

svVars == <<svPc, svVariant, svOpts, svPure, svPackets, svFs, svResult, svFile>>

encVars == <<enPc, enKey, enIn, enWire, enBuf, enResp, enReads>>

apiVars == <<apPc, apOpts, apI, apConnErr, apTrace, apResult>>

pureVars == <<puPc, puIn, puOut>>

lastVars == <<apiVars, pureVars>>

endVars == <<ncVars, svVars, encVars, lastVars>>

\* the variables of the response extraction
tailVars == <<chVars, httpVars, endVars>>

restVars == <<ctVars, cdVars, aesVars, tailVars>>

vars == <<segVars, cliVars, dlVars, xfVars, hsVars, ccVars, restVars>>

----------------------------------------------------------------------------
(* Byte strings *)

\* F at the values of its arguments: as in Go, an argument is evaluated
\* once, before the call
Call1(F(_), a) == CHOOSE r \in { F(x) : x \in {a} } : TRUE
Call2(F(_, _), a, b) == CHOOSE r \in { F(x, y) : x \in {a}, y \in {b} } : TRUE

Min(S) == CHOOSE x \in S : \A y \in S : x <= y

Slice(s, a, b) == SubSeq(s, a + 1, b)

SliceFrom(s, a) == SubSeq(s, a + 1, Len(s))

RECURSIVE Repeat(_, _)
Repeat(b, n) == IF n <= 0 THEN <<>> ELSE <<b>> \o Repeat(b, n - 1)

\* bytes.Index: first zero-based position of pat in s, -1 when absent
BytesIndex(s, pat) ==
    LET hits == { i \in 0..(Len(s) - Len(pat)) : Slice(s, i, i + Len(pat)) = pat }
    IN  IF hits = {} THEN -1 ELSE Min(hits)

----------------------------------------------------------------------------
(* proto: constants and the response header codec *)

HEAD_TAG == 1162693946
RESPONSE_HEAD_LEN == 20
PROTO_VERSION == 1
EMM_COMMAND_INIT_ACK == 3
EMM_COMMAND_TRAN_ACK == 7
EMM_COMMAND_LINK_CLOSE == 200
AUTH_STATUS_CODE_SUCCESS == 8002
AUTH_STATUS_CODE_ERR_TENNEL_FORBIDDEN == 8001

\* a variant that writes the low byte first
WriteUint16LittleEndian(v) == << v % 256, (v \div 256) % 256 >>

\* binary.BigEndian.PutUint16 / PutUint32
WriteUint16(v) == << (v \div 256) % 256, v % 256 >>

WriteUint32(v) == << (v \div 16777216) % 256, (v \div 65536) % 256,
                     (v \div 256) % 256, v % 256 >>

\* binary.BigEndian.Uint16 / Uint32 of the bytes at zero-based offset i.
\* The model's integers are 32-bit signed, a uint32 is not: a uint32 u is held
\* as the signed integer of the same four bytes, which is u itself below 2^31
\* and u - 2^32 from 2^31 on. Distinct values stay distinct, and WriteUint32
\* of the integer held gives the four bytes of u.
ReadUint16(data, i) == data[i + 1] * 256 + data[i + 2]

ReadUint32(data, i) ==
    (IF data[i + 1] > 127 THEN data[i + 1] - 256 ELSE data[i + 1]) * 16777216
    + data[i + 2] * 65536 + data[i + 3] * 256 + data[i + 4]

\* int(u) > n for a uint32 u held that way and an n of at most 2^31 - 1
Uint32Exceeds(u, n) == u < 0 \/ u > n

\* ResponseHeader.Marshal: Tag, Version, Command, Result, Option, Reserve,
\* DataLen, OriginLen, big-endian, 20 bytes
ResponseHeaderMarshal(h) ==
    WriteUint32(h.Tag) \o WriteUint16(h.Version) \o WriteUint16(h.Command)
    \o WriteUint16(h.Result) \o <<h.Option % 256>> \o <<h.Reserve % 256>>
    \o WriteUint32(h.DataLen) \o WriteUint32(h.OriginLen)

\* ResponseHeader.UnMarshal of (at least) 20 bytes
ResponseHeaderUnMarshal(data) ==
    [ Tag       |-> ReadUint32(data, 0),
      Version   |-> ReadUint16(data, 4),
      Command   |-> ReadUint16(data, 6),
      Result    |-> ReadUint16(data, 8),
      Option    |-> data[11],
      Reserve   |-> data[12],
      DataLen   |-> ReadUint32(data, 12),
      OriginLen |-> ReadUint32(data, 16) ]

\* UdpResponseMessage.Marshal: the header followed by the body
UdpResponseMessageMarshal(head, body) == ResponseHeaderMarshal(head) \o body

----------------------------------------------------------------------------
(* the standard library: bit operations, crypto/md5, crypto/aes, crypto/cipher *)

BlockSize == 16        \* aes.BlockSize

\* a ^ b, a & b and a | b for two values of four bits
XorNibbles ==
    << <<0, 1, 2, 3, 4, 5, 6, 7, 8, 9, 10, 11, 12, 13, 14, 15>>,
       <<1, 0, 3, 2, 5, 4, 7, 6, 9, 8, 11, 10, 13, 12, 15, 14>>,
       <<2, 3, 0, 1, 6, 7, 4, 5, 10, 11, 8, 9, 14, 15, 12, 13>>,
       <<3, 2, 1, 0, 7, 6, 5, 4, 11, 10, 9, 8, 15, 14, 13, 12>>,
       <<4, 5, 6, 7, 0, 1, 2, 3, 12, 13, 14, 15, 8, 9, 10, 11>>,
       <<5, 4, 7, 6, 1, 0, 3, 2, 13, 12, 15, 14, 9, 8, 11, 10>>,
       <<6, 7, 4, 5, 2, 3, 0, 1, 14, 15, 12, 13, 10, 11, 8, 9>>,
       <<7, 6, 5, 4, 3, 2, 1, 0, 15, 14, 13, 12, 11, 10, 9, 8>>,
       <<8, 9, 10, 11, 12, 13, 14, 15, 0, 1, 2, 3, 4, 5, 6, 7>>,
       <<9, 8, 11, 10, 13, 12, 15, 14, 1, 0, 3, 2, 5, 4, 7, 6>>,
       <<10, 11, 8, 9, 14, 15, 12, 13, 2, 3, 0, 1, 6, 7, 4, 5>>,
       <<11, 10, 9, 8, 15, 14, 13, 12, 3, 2, 1, 0, 7, 6, 5, 4>>,
       <<12, 13, 14, 15, 8, 9, 10, 11, 4, 5, 6, 7, 0, 1, 2, 3>>,
       <<13, 12, 15, 14, 9, 8, 11, 10, 5, 4, 7, 6, 1, 0, 3, 2>>,
       <<14, 15, 12, 13, 10, 11, 8, 9, 6, 7, 4, 5, 2, 3, 0, 1>>,
       <<15, 14, 13, 12, 11, 10, 9, 8, 7, 6, 5, 4, 3, 2, 1, 0>> >>

AndNibbles ==
    << <<0, 0, 0, 0, 0, 0, 0, 0, 0, 0, 0, 0, 0, 0, 0, 0>>,
       <<0, 1, 0, 1, 0, 1, 0, 1, 0, 1, 0, 1, 0, 1, 0, 1>>,
       <<0, 0, 2, 2, 0, 0, 2, 2, 0, 0, 2, 2, 0, 0, 2, 2>>,
       <<0, 1, 2, 3, 0, 1, 2, 3, 0, 1, 2, 3, 0, 1, 2, 3>>,
       <<0, 0, 0, 0, 4, 4, 4, 4, 0, 0, 0, 0, 4, 4, 4, 4>>,
       <<0, 1, 0, 1, 4, 5, 4, 5, 0, 1, 0, 1, 4, 5, 4, 5>>,
       <<0, 0, 2, 2, 4, 4, 6, 6, 0, 0, 2, 2, 4, 4, 6, 6>>,
       <<0, 1, 2, 3, 4, 5, 6, 7, 0, 1, 2, 3, 4, 5, 6, 7>>,
       <<0, 0, 0, 0, 0, 0, 0, 0, 8, 8, 8, 8, 8, 8, 8, 8>>,
       <<0, 1, 0, 1, 0, 1, 0, 1, 8, 9, 8, 9, 8, 9, 8, 9>>,
       <<0, 0, 2, 2, 0, 0, 2, 2, 8, 8, 10, 10, 8, 8, 10, 10>>,
       <<0, 1, 2, 3, 0, 1, 2, 3, 8, 9, 10, 11, 8, 9, 10, 11>>,
       <<0, 0, 0, 0, 4, 4, 4, 4, 8, 8, 8, 8, 12, 12, 12, 12>>,
       <<0, 1, 0, 1, 4, 5, 4, 5, 8, 9, 8, 9, 12, 13, 12, 13>>,
       <<0, 0, 2, 2, 4, 4, 6, 6, 8, 8, 10, 10, 12, 12, 14, 14>>,
       <<0, 1, 2, 3, 4, 5, 6, 7, 8, 9, 10, 11, 12, 13, 14, 15>> >>

OrNibbles ==
    << <<0, 1, 2, 3, 4, 5, 6, 7, 8, 9, 10, 11, 12, 13, 14, 15>>,
       <<1, 1, 3, 3, 5, 5, 7, 7, 9, 9, 11, 11, 13, 13, 15, 15>>,
       <<2, 3, 2, 3, 6, 7, 6, 7, 10, 11, 10, 11, 14, 15, 14, 15>>,
       <<3, 3, 3, 3, 7, 7, 7, 7, 11, 11, 11, 11, 15, 15, 15, 15>>,
       <<4, 5, 6, 7, 4, 5, 6, 7, 12, 13, 14, 15, 12, 13, 14, 15>>,
       <<5, 5, 7, 7, 5, 5, 7, 7, 13, 13, 15, 15, 13, 13, 15, 15>>,
       <<6, 7, 6, 7, 6, 7, 6, 7, 14, 15, 14, 15, 14, 15, 14, 15>>,
       <<7, 7, 7, 7, 7, 7, 7, 7, 15, 15, 15, 15, 15, 15, 15, 15>>,
       <<8, 9, 10, 11, 12, 13, 14, 15, 8, 9, 10, 11, 12, 13, 14, 15>>,
       <<9, 9, 11, 11, 13, 13, 15, 15, 9, 9, 11, 11, 13, 13, 15, 15>>,
       <<10, 11, 10, 11, 14, 15, 14, 15, 10, 11, 10, 11, 14, 15, 14, 15>>,
       <<11, 11, 11, 11, 15, 15, 15, 15, 11, 11, 11, 11, 15, 15, 15, 15>>,
       <<12, 13, 14, 15, 12, 13, 14, 15, 12, 13, 14, 15, 12, 13, 14, 15>>,
       <<13, 13, 15, 15, 13, 13, 15, 15, 13, 13, 15, 15, 13, 13, 15, 15>>,
       <<14, 15, 14, 15, 14, 15, 14, 15, 14, 15, 14, 15, 14, 15, 14, 15>>,
       <<15, 15, 15, 15, 15, 15, 15, 15, 15, 15, 15, 15, 15, 15, 15, 15>> >>

\* a ^ b for two bytes
XorByte(a, b) ==
    16 * XorNibbles[(a \div 16) + 1][(b \div 16) + 1] + XorNibbles[(a % 16) + 1][(b % 16) + 1]

\* the sixteen values f[1], ..., f[16] as a tuple
Bytes16(f) ==
    << f[1], f[2], f[3], f[4], f[5], f[6], f[7], f[8],
       f[9], f[10], f[11], f[12], f[13], f[14], f[15], f[16] >>

XorBlock(x, y) == Bytes16([i \in 1..BlockSize |-> XorByte(x[i], y[i])])

\* A uint32 of crypto/md5 is held as its two halves <<high, low>> of 16 bits.
\* op(a, b) bit by bit for two halves, op given by its table for four bits
Op16(table, a, b) ==
    4096 * table[(a \div 4096) + 1][(b \div 4096) + 1]
    + 256 * table[((a \div 256) % 16) + 1][((b \div 256) % 16) + 1]
    + 16 * table[((a \div 16) % 16) + 1][((b \div 16) % 16) + 1]
    + table[(a % 16) + 1][(b % 16) + 1]

And32(x, y) ==
    Call2(LAMBDA v, w : << Op16(AndNibbles, v[1], w[1]), Op16(AndNibbles, v[2], w[2]) >>,
          x, y)
Or32(x, y) ==
    Call2(LAMBDA v, w : << Op16(OrNibbles, v[1], w[1]), Op16(OrNibbles, v[2], w[2]) >>,
          x, y)
Xor32(x, y) ==
    Call2(LAMBDA v, w : << Op16(XorNibbles, v[1], w[1]), Op16(XorNibbles, v[2], w[2]) >>,
          x, y)
Not32(x) == Call1(LAMBDA v : << 65535 - v[1], 65535 - v[2] >>, x)

\* x + y modulo 2^32
Add32(x, y) ==
    Call2(LAMBDA v, w : << (v[1] + w[1] + ((v[2] + w[2]) \div 65536)) % 65536,
                           (v[2] + w[2]) % 65536 >>, x, y)

\* bits.RotateLeft32(x, s) for 0 < s < 32
RotateLeft32(x, s) ==
    Call2(LAMBDA y, t :
            IF t = 0 THEN y
            ELSE << (y[1] % (2 ^ (16 - t))) * (2 ^ t) + (y[2] \div (2 ^ (16 - t))),
                    (y[2] % (2 ^ (16 - t))) * (2 ^ t) + (y[1] \div (2 ^ (16 - t))) >>,
          Call1(LAMBDA v : IF s >= 16 THEN << v[2], v[1] >> ELSE v, x), s % 16)

\* the table of crypto/md5: floor(abs(sin(i + 1)) * 2^32), as halves
MD5Table ==
    << <<55146, 42104>>, <<59591, 46934>>, <<9248, 28891>>, <<49597, 52974>>,
       <<62844, 4015>>, <<18311, 50730>>, <<43056, 17939>>, <<64838, 38145>>,
       <<27008, 39128>>, <<35652, 63407>>, <<65535, 23473>>, <<35164, 55230>>,
       <<27536, 4386>>, <<64920, 29075>>, <<42617, 17294>>, <<18868, 2081>>,
       <<63006, 9570>>, <<49216, 45888>>, <<9822, 23121>>, <<59830, 51114>>,
       <<54831, 4189>>, <<580, 5203>>, <<55457, 59009>>, <<59347, 64456>>,
       <<8673, 52710>>, <<49975, 2006>>, <<62677, 3463>>, <<17754, 5357>>,
       <<43491, 59653>>, <<64751, 41976>>, <<26479, 729>>, <<36138, 19594>>,
       <<65530, 14658>>, <<34673, 63105>>, <<28061, 24866>>, <<64997, 14348>>,
       <<42174, 59972>>, <<19422, 53161>>, <<63163, 19296>>, <<48831, 48240>>,
       <<10395, 32454>>, <<60065, 10234>>, <<54511, 12421>>, <<1160, 7429>>,
       <<55764, 53305>>, <<59099, 39397>>, <<8098, 31992>>, <<50348, 22117>>,
       <<62505, 8772>>, <<17194, 65431>>, <<43924, 9127>>, <<64659, 41017>>,
       <<25947, 22979>>, <<36620, 52370>>, <<65519, 62589>>, <<34180, 24017>>,
       <<28584, 32335>>, <<65068, 59104>>, <<41729, 17172>>, <<19976, 4513>>,
       <<63315, 32386>>, <<48442, 62005>>, <<10967, 53947>>, <<60294, 54161>> >>

\* the shift of each of the 64 steps
MD5Shifts ==
    << 7, 12, 17, 22, 7, 12, 17, 22, 7, 12, 17, 22, 7, 12, 17, 22,
       5, 9, 14, 20, 5, 9, 14, 20, 5, 9, 14, 20, 5, 9, 14, 20,
       4, 11, 16, 23, 4, 11, 16, 23, 4, 11, 16, 23, 4, 11, 16, 23,
       6, 10, 15, 21, 6, 10, 15, 21, 6, 10, 15, 21, 6, 10, 15, 21 >>

\* the word of the block that step i (0..63) adds
MD5Index(i) ==
    IF i < 16 THEN i
    ELSE IF i < 32 THEN (5 * i + 1) % 16
    ELSE IF i < 48 THEN (3 * i + 5) % 16
    ELSE (7 * i) % 16

\* the function of b, c, d that step i mixes in
MD5Mix(i, b, c, d) ==
    IF i < 16 THEN Or32(And32(b, c), And32(Not32(b), d))
    ELSE IF i < 32 THEN Or32(And32(b, d), And32(c, Not32(d)))
    ELSE IF i < 48 THEN Xor32(b, Xor32(c, d))
    ELSE Xor32(c, Or32(b, Not32(d)))

\* one step: the state <<a, b, c, d>> after step i (0..63) on the state st
\* with the words m of one block
MD5Step(i, st, m) ==
    << st[4],
       Add32(st[2],
             RotateLeft32(Add32(Add32(st[1], MD5Mix(i, st[2], st[3], st[4])),
                                Add32(MD5Table[i + 1], m[MD5Index(i) + 1])),
                          MD5Shifts[i + 1])),
       st[2], st[3] >>

\* the n steps from step i on, on the state st with the words m of one block
RECURSIVE MD5Steps(_, _, _, _)
MD5Steps(i, n, st, m) ==
    IF n = 0 THEN st
    ELSE Call2(LAMBDA j, next : MD5Steps(j, n - 1, next, m), i + 1, MD5Step(i, st, m))

\* the steps i..63, eight at a time
RECURSIVE MD5Rounds(_, _, _)
MD5Rounds(i, st, m) ==
    IF i = 64 THEN st
    ELSE Call2(LAMBDA j, next : MD5Rounds(j, next, m), i + 8, MD5Steps(i, 8, st, m))

\* the sixteen little-endian words of the 64-byte block of data at offset o
MD5Words(data, o) ==
    Bytes16([j \in 1..16 |->
        << data[o + 4 * j - 1] + 256 * data[o + 4 * j],
           data[o + 4 * j - 3] + 256 * data[o + 4 * j - 2] >>])

\* the state st after the 64-byte block of data at offset o
MD5Block(data, o, st) ==
    Call2(LAMBDA m, r : << Add32(st[1], r[1]), Add32(st[2], r[2]),
                           Add32(st[3], r[3]), Add32(st[4], r[4]) >>,
          MD5Words(data, o),
          Call1(LAMBDA m : MD5Rounds(0, st, m), MD5Words(data, o)))

\* the blocks of data from offset o on, added to the state st
RECURSIVE MD5Blocks(_, _, _)
MD5Blocks(data, o, st) ==
    IF o >= Len(data) THEN st
    ELSE Call2(LAMBDA p, next : MD5Blocks(data, p, next), o + 64, MD5Block(data, o, st))

\* the padding of a message of n bytes: 0x80, zeros up to 56 modulo 64, and
\* the number of bits in 8 little-endian bytes
MD5Padding(n) ==
    <<128>> \o [i \in 1..((55 - n) % 64) |-> 0]
    \o << (8 * n) % 256, ((8 * n) \div 256) % 256, ((8 * n) \div 65536) % 256,
          ((8 * n) \div 16777216) % 256, 0, 0, 0, 0 >>

MD5Init == << <<26437, 8961>>, <<61389, 43913>>, <<39098, 56574>>, <<4146, 21622>> >>

\* the four bytes of the word x, little-endian
LittleEndian32(x) == << x[2] % 256, x[2] \div 256, x[1] % 256, x[1] \div 256 >>

\* md5.Sum(data): the 16 bytes of the digest
MD5Sum(data) ==
    Call1(LAMBDA st : LittleEndian32(st[1]) \o LittleEndian32(st[2])
                      \o LittleEndian32(st[3]) \o LittleEndian32(st[4]),
          Call1(LAMBDA padded : MD5Blocks(padded, 0, MD5Init),
                Call1(LAMBDA d : d \o MD5Padding(Len(d)), data)))

\* hex.EncodeToString, and fmt.Sprintf("%x") of bytes: two lower-case digits
\* for each byte
HexEncode(s) ==
    LET digit(d) == IF d < 10 THEN 48 + d ELSE 87 + d
    IN  Call1(LAMBDA v : [i \in 1..(2 * Len(v)) |->
                            IF i % 2 = 1 THEN digit(v[(i + 1) \div 2] \div 16)
                            ELSE digit(v[i \div 2] % 16)], s)

\* the S-box of AES and its inverse
SBox ==
    << 99, 124, 119, 123, 242, 107, 111, 197, 48, 1, 103, 43, 254, 215, 171, 118,
       202, 130, 201, 125, 250, 89, 71, 240, 173, 212, 162, 175, 156, 164, 114, 192,
       183, 253, 147, 38, 54, 63, 247, 204, 52, 165, 229, 241, 113, 216, 49, 21,
       4, 199, 35, 195, 24, 150, 5, 154, 7, 18, 128, 226, 235, 39, 178, 117,
       9, 131, 44, 26, 27, 110, 90, 160, 82, 59, 214, 179, 41, 227, 47, 132,
       83, 209, 0, 237, 32, 252, 177, 91, 106, 203, 190, 57, 74, 76, 88, 207,
       208, 239, 170, 251, 67, 77, 51, 133, 69, 249, 2, 127, 80, 60, 159, 168,
       81, 163, 64, 143, 146, 157, 56, 245, 188, 182, 218, 33, 16, 255, 243, 210,
       205, 12, 19, 236, 95, 151, 68, 23, 196, 167, 126, 61, 100, 93, 25, 115,
       96, 129, 79, 220, 34, 42, 144, 136, 70, 238, 184, 20, 222, 94, 11, 219,
       224, 50, 58, 10, 73, 6, 36, 92, 194, 211, 172, 98, 145, 149, 228, 121,
       231, 200, 55, 109, 141, 213, 78, 169, 108, 86, 244, 234, 101, 122, 174, 8,
       186, 120, 37, 46, 28, 166, 180, 198, 232, 221, 116, 31, 75, 189, 139, 138,
       112, 62, 181, 102, 72, 3, 246, 14, 97, 53, 87, 185, 134, 193, 29, 158,
       225, 248, 152, 17, 105, 217, 142, 148, 155, 30, 135, 233, 206, 85, 40, 223,
       140, 161, 137, 13, 191, 230, 66, 104, 65, 153, 45, 15, 176, 84, 187, 22 >>

InvSBox ==
    << 82, 9, 106, 213, 48, 54, 165, 56, 191, 64, 163, 158, 129, 243, 215, 251,
       124, 227, 57, 130, 155, 47, 255, 135, 52, 142, 67, 68, 196, 222, 233, 203,
       84, 123, 148, 50, 166, 194, 35, 61, 238, 76, 149, 11, 66, 250, 195, 78,
       8, 46, 161, 102, 40, 217, 36, 178, 118, 91, 162, 73, 109, 139, 209, 37,
       114, 248, 246, 100, 134, 104, 152, 22, 212, 164, 92, 204, 93, 101, 182, 146,
       108, 112, 72, 80, 253, 237, 185, 218, 94, 21, 70, 87, 167, 141, 157, 132,
       144, 216, 171, 0, 140, 188, 211, 10, 247, 228, 88, 5, 184, 179, 69, 6,
       208, 44, 30, 143, 202, 63, 15, 2, 193, 175, 189, 3, 1, 19, 138, 107,
       58, 145, 17, 65, 79, 103, 220, 234, 151, 242, 207, 206, 240, 180, 230, 115,
       150, 172, 116, 34, 231, 173, 53, 133, 226, 249, 55, 232, 28, 117, 223, 110,
       71, 241, 26, 113, 29, 41, 197, 137, 111, 183, 98, 14, 170, 24, 190, 27,
       252, 86, 62, 75, 198, 210, 121, 32, 154, 219, 192, 254, 120, 205, 90, 244,
       31, 221, 168, 51, 136, 7, 199, 49, 177, 18, 16, 89, 39, 128, 236, 95,
       96, 81, 127, 169, 25, 181, 74, 13, 45, 229, 122, 159, 147, 201, 156, 239,
       160, 224, 59, 77, 174, 42, 245, 176, 200, 235, 187, 60, 131, 83, 153, 97,
       23, 43, 4, 126, 186, 119, 214, 38, 225, 105, 20, 99, 85, 33, 12, 125 >>

\* the products with 2, 3, 9, 11, 13 and 14 in GF(2^8) modulo x^8+x^4+x^3+x+1
Mul2 ==
    << 0, 2, 4, 6, 8, 10, 12, 14, 16, 18, 20, 22, 24, 26, 28, 30,
       32, 34, 36, 38, 40, 42, 44, 46, 48, 50, 52, 54, 56, 58, 60, 62,
       64, 66, 68, 70, 72, 74, 76, 78, 80, 82, 84, 86, 88, 90, 92, 94,
       96, 98, 100, 102, 104, 106, 108, 110, 112, 114, 116, 118, 120, 122, 124, 126,
       128, 130, 132, 134, 136, 138, 140, 142, 144, 146, 148, 150, 152, 154, 156, 158,
       160, 162, 164, 166, 168, 170, 172, 174, 176, 178, 180, 182, 184, 186, 188, 190,
       192, 194, 196, 198, 200, 202, 204, 206, 208, 210, 212, 214, 216, 218, 220, 222,
       224, 226, 228, 230, 232, 234, 236, 238, 240, 242, 244, 246, 248, 250, 252, 254,
       27, 25, 31, 29, 19, 17, 23, 21, 11, 9, 15, 13, 3, 1, 7, 5,
       59, 57, 63, 61, 51, 49, 55, 53, 43, 41, 47, 45, 35, 33, 39, 37,
       91, 89, 95, 93, 83, 81, 87, 85, 75, 73, 79, 77, 67, 65, 71, 69,
       123, 121, 127, 125, 115, 113, 119, 117, 107, 105, 111, 109, 99, 97, 103, 101,
       155, 153, 159, 157, 147, 145, 151, 149, 139, 137, 143, 141, 131, 129, 135, 133,
       187, 185, 191, 189, 179, 177, 183, 181, 171, 169, 175, 173, 163, 161, 167, 165,
       219, 217, 223, 221, 211, 209, 215, 213, 203, 201, 207, 205, 195, 193, 199, 197,
       251, 249, 255, 253, 243, 241, 247, 245, 235, 233, 239, 237, 227, 225, 231, 229 >>

Mul3 ==
    << 0, 3, 6, 5, 12, 15, 10, 9, 24, 27, 30, 29, 20, 23, 18, 17,
       48, 51, 54, 53, 60, 63, 58, 57, 40, 43, 46, 45, 36, 39, 34, 33,
       96, 99, 102, 101, 108, 111, 106, 105, 120, 123, 126, 125, 116, 119, 114, 113,
       80, 83, 86, 85, 92, 95, 90, 89, 72, 75, 78, 77, 68, 71, 66, 65,
       192, 195, 198, 197, 204, 207, 202, 201, 216, 219, 222, 221, 212, 215, 210, 209,
       240, 243, 246, 245, 252, 255, 250, 249, 232, 235, 238, 237, 228, 231, 226, 225,
       160, 163, 166, 165, 172, 175, 170, 169, 184, 187, 190, 189, 180, 183, 178, 177,
       144, 147, 150, 149, 156, 159, 154, 153, 136, 139, 142, 141, 132, 135, 130, 129,
       155, 152, 157, 158, 151, 148, 145, 146, 131, 128, 133, 134, 143, 140, 137, 138,
       171, 168, 173, 174, 167, 164, 161, 162, 179, 176, 181, 182, 191, 188, 185, 186,
       251, 248, 253, 254, 247, 244, 241, 242, 227, 224, 229, 230, 239, 236, 233, 234,
       203, 200, 205, 206, 199, 196, 193, 194, 211, 208, 213, 214, 223, 220, 217, 218,
       91, 88, 93, 94, 87, 84, 81, 82, 67, 64, 69, 70, 79, 76, 73, 74,
       107, 104, 109, 110, 103, 100, 97, 98, 115, 112, 117, 118, 127, 124, 121, 122,
       59, 56, 61, 62, 55, 52, 49, 50, 35, 32, 37, 38, 47, 44, 41, 42,
       11, 8, 13, 14, 7, 4, 1, 2, 19, 16, 21, 22, 31, 28, 25, 26 >>

Mul9 ==
    << 0, 9, 18, 27, 36, 45, 54, 63, 72, 65, 90, 83, 108, 101, 126, 119,
       144, 153, 130, 139, 180, 189, 166, 175, 216, 209, 202, 195, 252, 245, 238, 231,
       59, 50, 41, 32, 31, 22, 13, 4, 115, 122, 97, 104, 87, 94, 69, 76,
       171, 162, 185, 176, 143, 134, 157, 148, 227, 234, 241, 248, 199, 206, 213, 220,
       118, 127, 100, 109, 82, 91, 64, 73, 62, 55, 44, 37, 26, 19, 8, 1,
       230, 239, 244, 253, 194, 203, 208, 217, 174, 167, 188, 181, 138, 131, 152, 145,
       77, 68, 95, 86, 105, 96, 123, 114, 5, 12, 23, 30, 33, 40, 51, 58,
       221, 212, 207, 198, 249, 240, 235, 226, 149, 156, 135, 142, 177, 184, 163, 170,
       236, 229, 254, 247, 200, 193, 218, 211, 164, 173, 182, 191, 128, 137, 146, 155,
       124, 117, 110, 103, 88, 81, 74, 67, 52, 61, 38, 47, 16, 25, 2, 11,
       215, 222, 197, 204, 243, 250, 225, 232, 159, 150, 141, 132, 187, 178, 169, 160,
       71, 78, 85, 92, 99, 106, 113, 120, 15, 6, 29, 20, 43, 34, 57, 48,
       154, 147, 136, 129, 190, 183, 172, 165, 210, 219, 192, 201, 246, 255, 228, 237,
       10, 3, 24, 17, 46, 39, 60, 53, 66, 75, 80, 89, 102, 111, 116, 125,
       161, 168, 179, 186, 133, 140, 151, 158, 233, 224, 251, 242, 205, 196, 223, 214,
       49, 56, 35, 42, 21, 28, 7, 14, 121, 112, 107, 98, 93, 84, 79, 70 >>

Mul11 ==
    << 0, 11, 22, 29, 44, 39, 58, 49, 88, 83, 78, 69, 116, 127, 98, 105,
       176, 187, 166, 173, 156, 151, 138, 129, 232, 227, 254, 245, 196, 207, 210, 217,
       123, 112, 109, 102, 87, 92, 65, 74, 35, 40, 53, 62, 15, 4, 25, 18,
       203, 192, 221, 214, 231, 236, 241, 250, 147, 152, 133, 142, 191, 180, 169, 162,
       246, 253, 224, 235, 218, 209, 204, 199, 174, 165, 184, 179, 130, 137, 148, 159,
       70, 77, 80, 91, 106, 97, 124, 119, 30, 21, 8, 3, 50, 57, 36, 47,
       141, 134, 155, 144, 161, 170, 183, 188, 213, 222, 195, 200, 249, 242, 239, 228,
       61, 54, 43, 32, 17, 26, 7, 12, 101, 110, 115, 120, 73, 66, 95, 84,
       247, 252, 225, 234, 219, 208, 205, 198, 175, 164, 185, 178, 131, 136, 149, 158,
       71, 76, 81, 90, 107, 96, 125, 118, 31, 20, 9, 2, 51, 56, 37, 46,
       140, 135, 154, 145, 160, 171, 182, 189, 212, 223, 194, 201, 248, 243, 238, 229,
       60, 55, 42, 33, 16, 27, 6, 13, 100, 111, 114, 121, 72, 67, 94, 85,
       1, 10, 23, 28, 45, 38, 59, 48, 89, 82, 79, 68, 117, 126, 99, 104,
       177, 186, 167, 172, 157, 150, 139, 128, 233, 226, 255, 244, 197, 206, 211, 216,
       122, 113, 108, 103, 86, 93, 64, 75, 34, 41, 52, 63, 14, 5, 24, 19,
       202, 193, 220, 215, 230, 237, 240, 251, 146, 153, 132, 143, 190, 181, 168, 163 >>

Mul13 ==
    << 0, 13, 26, 23, 52, 57, 46, 35, 104, 101, 114, 127, 92, 81, 70, 75,
       208, 221, 202, 199, 228, 233, 254, 243, 184, 181, 162, 175, 140, 129, 150, 155,
       187, 182, 161, 172, 143, 130, 149, 152, 211, 222, 201, 196, 231, 234, 253, 240,
       107, 102, 113, 124, 95, 82, 69, 72, 3, 14, 25, 20, 55, 58, 45, 32,
       109, 96, 119, 122, 89, 84, 67, 78, 5, 8, 31, 18, 49, 60, 43, 38,
       189, 176, 167, 170, 137, 132, 147, 158, 213, 216, 207, 194, 225, 236, 251, 246,
       214, 219, 204, 193, 226, 239, 248, 245, 190, 179, 164, 169, 138, 135, 144, 157,
       6, 11, 28, 17, 50, 63, 40, 37, 110, 99, 116, 121, 90, 87, 64, 77,
       218, 215, 192, 205, 238, 227, 244, 249, 178, 191, 168, 165, 134, 139, 156, 145,
       10, 7, 16, 29, 62, 51, 36, 41, 98, 111, 120, 117, 86, 91, 76, 65,
       97, 108, 123, 118, 85, 88, 79, 66, 9, 4, 19, 30, 61, 48, 39, 42,
       177, 188, 171, 166, 133, 136, 159, 146, 217, 212, 195, 206, 237, 224, 247, 250,
       183, 186, 173, 160, 131, 142, 153, 148, 223, 210, 197, 200, 235, 230, 241, 252,
       103, 106, 125, 112, 83, 94, 73, 68, 15, 2, 21, 24, 59, 54, 33, 44,
       12, 1, 22, 27, 56, 53, 34, 47, 100, 105, 126, 115, 80, 93, 74, 71,
       220, 209, 198, 203, 232, 229, 242, 255, 180, 185, 174, 163, 128, 141, 154, 151 >>

Mul14 ==
    << 0, 14, 28, 18, 56, 54, 36, 42, 112, 126, 108, 98, 72, 70, 84, 90,
       224, 238, 252, 242, 216, 214, 196, 202, 144, 158, 140, 130, 168, 166, 180, 186,
       219, 213, 199, 201, 227, 237, 255, 241, 171, 165, 183, 185, 147, 157, 143, 129,
       59, 53, 39, 41, 3, 13, 31, 17, 75, 69, 87, 89, 115, 125, 111, 97,
       173, 163, 177, 191, 149, 155, 137, 135, 221, 211, 193, 207, 229, 235, 249, 247,
       77, 67, 81, 95, 117, 123, 105, 103, 61, 51, 33, 47, 5, 11, 25, 23,
       118, 120, 106, 100, 78, 64, 82, 92, 6, 8, 26, 20, 62, 48, 34, 44,
       150, 152, 138, 132, 174, 160, 178, 188, 230, 232, 250, 244, 222, 208, 194, 204,
       65, 79, 93, 83, 121, 119, 101, 107, 49, 63, 45, 35, 9, 7, 21, 27,
       161, 175, 189, 179, 153, 151, 133, 139, 209, 223, 205, 195, 233, 231, 245, 251,
       154, 148, 134, 136, 162, 172, 190, 176, 234, 228, 246, 248, 210, 220, 206, 192,
       122, 116, 102, 104, 66, 76, 94, 80, 10, 4, 22, 24, 50, 60, 46, 32,
       236, 226, 240, 254, 212, 218, 200, 198, 156, 146, 128, 142, 164, 170, 184, 182,
       12, 2, 16, 30, 52, 58, 40, 38, 124, 114, 96, 110, 68, 74, 88, 86,
       55, 57, 43, 37, 15, 1, 19, 29, 71, 73, 91, 85, 127, 113, 99, 109,
       215, 217, 203, 197, 239, 225, 243, 253, 167, 169, 187, 181, 159, 145, 131, 141 >>

\* the round constants of the key expansion
Rcon == << 1, 2, 4, 8, 16, 32, 64, 128, 27, 54 >>

Xor4(a, b, c, d) == XorByte(XorByte(a, b), XorByte(c, d))

\* the key expansion: the words w (4 bytes each) extended to total words, for
\* a key of nk words
RECURSIVE ExpandKeyWords(_, _, _)
ExpandKeyWords(w, nk, total) ==
    IF Len(w) >= total THEN w
    ELSE LET i == Len(w)
             prev == w[i]
             back == w[i - nk + 1]
             temp == IF i % nk = 0
                     THEN << XorByte(SBox[prev[2] + 1], Rcon[i \div nk]),
                             SBox[prev[3] + 1], SBox[prev[4] + 1], SBox[prev[1] + 1] >>
                     ELSE IF nk > 6 /\ i % nk = 4
                     THEN << SBox[prev[1] + 1], SBox[prev[2] + 1],
                             SBox[prev[3] + 1], SBox[prev[4] + 1] >>
                     ELSE prev
         IN  ExpandKeyWords(
                 Append(w, << XorByte(back[1], temp[1]), XorByte(back[2], temp[2]),
                              XorByte(back[3], temp[3]), XorByte(back[4], temp[4]) >>),
                 nk, total)

\* aes.NewCipher(key) for a key of 16, 24 or 32 bytes: the round keys, 16
\* bytes each, of the 10, 12 or 14 rounds
NewCipher(key) ==
    LET nk == Len(key) \div 4
        w == ExpandKeyWords([i \in 1..nk |-> SubSeq(key, 4 * i - 3, 4 * i)],
                            nk, 4 * (nk + 7))
    IN  [r \in 1..(nk + 7) |->
            w[4 * r - 3] \o w[4 * r - 2] \o w[4 * r - 1] \o w[4 * r]]

\* the state is the block, byte r of column c at position 4 * c + r + 1
SubBytes(s) == Bytes16([i \in 1..16 |-> SBox[s[i] + 1]])
InvSubBytes(s) == Bytes16([i \in 1..16 |-> InvSBox[s[i] + 1]])

ShiftRows(s) ==
    Bytes16([i \in 1..16 |->
        LET r == (i - 1) % 4
            c == (i - 1) \div 4
        IN  s[4 * ((c + r) % 4) + r + 1]])

InvShiftRows(s) ==
    Bytes16([i \in 1..16 |->
        LET r == (i - 1) % 4
            c == (i - 1) \div 4
        IN  s[4 * ((c - r) % 4) + r + 1]])

MixColumns(s) ==
    Bytes16([i \in 1..16 |->
        LET r == (i - 1) % 4
            o == i - r
        IN  Xor4(Mul2[s[o + r] + 1], Mul3[s[o + ((r + 1) % 4)] + 1],
                 s[o + ((r + 2) % 4)], s[o + ((r + 3) % 4)])])

InvMixColumns(s) ==
    Bytes16([i \in 1..16 |->
        LET r == (i - 1) % 4
            o == i - r
        IN  Xor4(Mul14[s[o + r] + 1], Mul11[s[o + ((r + 1) % 4)] + 1],
                 Mul13[s[o + ((r + 2) % 4)] + 1], Mul9[s[o + ((r + 3) % 4)] + 1])])

\* the encryption with the round keys c, c[r + 1] being the key of round r:
\* ss holds the states after the rounds taken so far, round 0 first
RECURSIVE EncryptRounds(_, _)
EncryptRounds(c, ss) ==
    LET r == Len(ss)
        s == ShiftRows(SubBytes(ss[r]))
    IN  IF r = Len(c) - 1 THEN XorBlock(s, c[r + 1])
        ELSE EncryptRounds(c, Append(ss, XorBlock(MixColumns(s), c[r + 1])))

\* the decryption: ss holds the states after the rounds taken so far, from
\* the last round key down
RECURSIVE DecryptRounds(_, _)
DecryptRounds(c, ss) ==
    LET r == Len(c) - Len(ss)
        s == XorBlock(InvSubBytes(InvShiftRows(ss[Len(ss)])), c[r])
    IN  IF r = 1 THEN s
        ELSE DecryptRounds(c, Append(ss, InvMixColumns(s)))

\* Block.Encrypt and Block.Decrypt of aes.NewCipher(k) on one 16-byte block
BlockEncrypt(k, b) ==
    LET c == NewCipher(k) IN EncryptRounds(c, <<XorBlock(b, c[1])>>)

BlockDecrypt(k, b) ==
    LET c == NewCipher(k) IN DecryptRounds(c, <<XorBlock(b, c[Len(c)])>>)

(* utils: EncryptAES and DecryptAES (AES-CBC, zero IV) *)

\* if len(key) != 16 && len(key) != 24 && len(key) != 32 { key = md5.Sum(key) }
CipherKey(key) == IF Len(key) \in {16, 24, 32} THEN key ELSE MD5Sum(key)

\* cipher.NewCBCEncrypter(c, iv).CryptBlocks over whole blocks
RECURSIVE CBCEncrypt(_, _, _)
CBCEncrypt(k, prev, data) ==
    IF data = <<>> THEN <<>>
    ELSE LET c == BlockEncrypt(k, XorBlock(Slice(data, 0, BlockSize), prev))
         IN  c \o CBCEncrypt(k, c, SliceFrom(data, BlockSize))

\* cipher.NewCBCDecrypter(block, iv).CryptBlocks over whole blocks
RECURSIVE CBCDecrypt(_, _, _)
CBCDecrypt(k, prev, data) ==
    IF data = <<>> THEN <<>>
    ELSE LET c == Slice(data, 0, BlockSize)
         IN  XorBlock(BlockDecrypt(k, c), prev)
             \o CBCDecrypt(k, c, SliceFrom(data, BlockSize))

ZeroIV == [i \in 1..BlockSize |-> 0]

\* EncryptAES: the plaintext zero-padded to whole blocks, then CBC
EncryptAES(key, plaintext) ==
    LET ptlen    == Len(plaintext)
        blocks   == IF ptlen % BlockSize > 0 THEN ptlen \div BlockSize + 1
                    ELSE ptlen \div BlockSize
        totallen == blocks * BlockSize
        plaintextNew == [i \in 1..totallen |->
                            IF i <= ptlen THEN plaintext[i] ELSE 0]
    IN  CBCEncrypt(CipherKey(key), ZeroIV, plaintextNew)

\* a variant that trims by any non-zero last byte
StripPaddingAnyByte(decodeBytes) ==
    LET paddingLen == decodeBytes[Len(decodeBytes)]
    IN  IF paddingLen > 0
        THEN Slice(decodeBytes, 0, Len(decodeBytes) - Min({paddingLen, Len(decodeBytes)}))
        ELSE decodeBytes

\* paddingLen := int(decodeBytes[len-1]); if paddingLen > 0 && paddingLen <=
\* aes.BlockSize { decodeBytes = decodeBytes[:len-paddingLen] }
StripPadding(decodeBytes) ==
    LET paddingLen == decodeBytes[Len(decodeBytes)]
    IN  IF paddingLen > 0 /\ paddingLen <= BlockSize
        THEN Slice(decodeBytes, 0, Len(decodeBytes) - paddingLen)
        ELSE decodeBytes

\* DecryptAES: [kind, data]; kind "error" for the returned error, "panic" for
\* CryptBlocks's panic on an input that is not whole blocks
DecryptAES(key, ciphertext) ==
    IF Len(ciphertext) < BlockSize
    THEN [kind |-> "error", data |-> <<>>]
    ELSE IF Len(ciphertext) % BlockSize # 0
    THEN [kind |-> "panic", data |-> <<>>]
    ELSE [kind |-> "ok",
          data |-> StripPadding(CBCDecrypt(CipherKey(key), ZeroIV, ciphertext))]

----------------------------------------------------------------------------
(* client: parseMessage *)

ParseNone == [respLen |-> 0, cmd |-> 0, dataLen |-> 0, result |-> 0, body |-> <<>>]

\* a variant that does not compare the tag with HEAD_TAG
parseMessageAnyTag(message, msgLength) ==
    IF msgLength < RESPONSE_HEAD_LEN THEN ParseNone
    ELSE LET head   == ResponseHeaderUnMarshal(Slice(message, 0, RESPONSE_HEAD_LEN))
             msglen == head.DataLen + RESPONSE_HEAD_LEN
         IN  IF Uint32Exceeds(head.DataLen, msgLength - RESPONSE_HEAD_LEN)
             THEN ParseNone
             ELSE [ respLen |-> msglen,
                    cmd     |-> head.Command,
                    dataLen |-> head.DataLen,
                    result  |-> head.Result,
                    body    |-> IF head.DataLen > 0
                                THEN Slice(message, RESPONSE_HEAD_LEN, msglen)
                                ELSE <<>> ]

parseMessage(message, msgLength) ==
    IF msgLength < RESPONSE_HEAD_LEN THEN ParseNone
    ELSE LET head   == ResponseHeaderUnMarshal(Slice(message, 0, RESPONSE_HEAD_LEN))
             msglen == head.DataLen + RESPONSE_HEAD_LEN
         IN  IF head.Tag # HEAD_TAG THEN ParseNone
             \* msglen > msgLength, written without forming an msglen over 2^31
             ELSE IF Uint32Exceeds(head.DataLen, msgLength - RESPONSE_HEAD_LEN)
             THEN ParseNone
             ELSE [ respLen |-> msglen,
                    cmd     |-> head.Command,
                    dataLen |-> head.DataLen,
                    result  |-> head.Result,
                    body    |-> IF head.DataLen > 0
                                THEN Slice(message, RESPONSE_HEAD_LEN, msglen)
                                ELSE <<>> ]

----------------------------------------------------------------------------
(* client: the segmentation pass of SendTransferRequestWithDownload *)

TagBytes == <<69, 77, 77, 58>>          \* "EMM:"
HttpPrefix == <<72, 84, 84, 80, 47>>    \* "HTTP/"
MaxScanLen == 100

\* the scan for the tag: for i := 1; i < maxScanLen-4; i++ ; -1 when not found
ScanValidOffset(raw) ==
    LET maxScanLen == IF Len(raw) < MaxScanLen THEN Len(raw) ELSE MaxScanLen
        hits == { i \in 1..(maxScanLen - 5) : Slice(raw, i, i + 4) = TagBytes }
    IN  IF hits = {} THEN -1 ELSE Min(hits)

\* neither "HTTP/" nor the tag found: pureDataBuffer = append(pureDataBuffer,
\* remainingRaw...)
FallbackAppend(pure, rem) == IF Len(rem) > 0 THEN pure \o rem ELSE pure

\* how far the loop moves past a parsed message: segmentSize
SegmentSize(respLen) == RESPONSE_HEAD_LEN + respLen

\* One iteration of the loop `for len(remainingRaw) > RESPONSE_HEAD_LEN`:
\* the new remainingRaw and pureDataBuffer, whether the loop breaks, and the
\* branch taken.
SegIteration(rem, pure) ==
    LET p == parseMessage(rem, Len(rem)) IN
    IF p.respLen <= 0 \/ p.cmd = 0
    THEN LET httpIndex == BytesIndex(rem, HttpPrefix) IN
         IF httpIndex >= 0
         THEN [rem |-> rem, pure |-> pure \o SliceFrom(rem, httpIndex),
               brk |-> TRUE, branch |-> "http"]
         ELSE LET validOffset == ScanValidOffset(rem) IN
              IF validOffset > 0
              THEN [rem |-> SliceFrom(rem, validOffset), pure |-> pure,
                    brk |-> FALSE, branch |-> "resync"]
              ELSE [rem |-> rem, pure |-> FallbackAppend(pure, rem),
                    brk |-> TRUE, branch |-> "fallback"]
    ELSE IF p.cmd = EMM_COMMAND_LINK_CLOSE
    THEN [rem |-> rem, pure |-> pure, brk |-> TRUE, branch |-> "linkclose"]
    ELSE IF p.respLen <= 0 \/ p.respLen > Len(rem)
    THEN [rem |-> rem, pure |-> pure, brk |-> TRUE, branch |-> "badlen"]
    ELSE LET pure2 == IF Len(p.body) > 0 THEN pure \o p.body ELSE pure
             segmentSize == SegmentSize(p.respLen)
         IN  IF segmentSize >= Len(rem)
             THEN [rem |-> rem, pure |-> pure2, brk |-> TRUE, branch |-> "last"]
             ELSE [rem |-> SliceFrom(rem, segmentSize), pure |-> pure2,
                   brk |-> FALSE, branch |-> "advance"]

\* the whole pass: the pure payload extracted from a raw accumulator
RECURSIVE SegmentFrom(_, _)
SegmentFrom(rem, pure) ==
    IF Len(rem) <= RESPONSE_HEAD_LEN THEN pure
    ELSE LET it == SegIteration(rem, pure) IN
         IF it.brk THEN it.pure ELSE SegmentFrom(it.rem, it.pure)

Segmentation(raw) == SegmentFrom(raw, <<>>)

----------------------------------------------------------------------------
(* Inputs of the segmentation pass *)

MaxFrames == 2      \* frames in one raw accumulator
GarbageLen == 50    \* bytes of garbage put before the frames

TokX == <<120>>
Tokens == {TokX, HttpPrefix, TagBytes}
Bodies == {<<>>} \cup Tokens \cup {TokX \o HttpPrefix}
SegCmds == {EMM_COMMAND_TRAN_ACK, EMM_COMMAND_LINK_CLOSE, 0}
FrameSet == [cmd : SegCmds, result : {0}, body : Bodies]
Garbages == {<<>>, Repeat(103, GarbageLen),
             Repeat(103, GarbageLen - 5) \o HttpPrefix}

\* the bytes the peer puts on the wire for frame f
Frame(f) ==
    UdpResponseMessageMarshal(
        [Tag |-> HEAD_TAG, Version |-> PROTO_VERSION, Command |-> f.cmd,
         Result |-> f.result, Option |-> 0, Reserve |-> 0,
         DataLen |-> Len(f.body), OriginLen |-> 0], f.body)

RECURSIVE Wire(_)
Wire(fs) == IF fs = <<>> THEN <<>> ELSE Frame(Head(fs)) \o Wire(Tail(fs))

RECURSIVE BodiesOf(_)
BodiesOf(fs) == IF fs = <<>> THEN <<>> ELSE Head(fs).body \o BodiesOf(Tail(fs))

FrameSeqs(n) == UNION { [1..k -> FrameSet] : k \in 1..n }

----------------------------------------------------------------------------
(* SpecSeg: the segmentation pass run on a raw accumulator *)

\* SendTransferRequestWithDownload: return nil, err
NilResult == [nil |-> TRUE, RawData |-> <<>>, PureData |-> <<>>,
              ReceivedBytes |-> 0, SentBytes |-> 0, HTTPInfo |-> <<>>,
              MD5Sum |-> <<>>, FilePath |-> <<>>]

\* NewTransferClient: if config.MaxRetries <= 0 { config.MaxRetries = 10 }
DefaultMaxRetries == 10

NewTransferClient(maxRetries) ==
    [conn |-> "nil", stream |-> "nil",
     MaxRetries |-> IF maxRetries <= 0 THEN DefaultMaxRetries ELSE maxRetries]

\* the returned error of an exchange: none yet, and nil
NoReturn == [op |-> "none", cause |-> "none"]
NoError == [op |-> "nil", cause |-> "nil"]

\* the client and the calls when a specification does not use them
ClientIdle ==
    /\ conn = NewTransferClient(0).conn /\ connCtxErr = FALSE
    /\ stream = NewTransferClient(0).stream /\ mu = "free"
    /\ configMaxRetries = NewTransferClient(0).MaxRetries

SegIdle ==
    /\ inGarbage = <<>>
    /\ totalRawResponse = <<>> /\ remainingRaw = <<>> /\ pureDataBuffer = <<>>
    /\ segPc = "off" /\ segLast = "none"

TransferIdle ==
    /\ xfPc = "off" /\ retry = 0 /\ responseBytes = <<>> /\ xfWire = <<>>
    /\ attempts = <<>> /\ xfSent = 0 /\ xfReceived = 0
    /\ xfErr = NoReturn /\ xfResp = <<>>

HandshakeIdle ==
    /\ hsPc = "off" /\ hsKind = "noaes" /\ hsRetry = 0 /\ hsWire = <<>>
    /\ hsChunk = <<>> /\ hsSent = 0 /\ hsReceived = 0 /\ hsErr = "none"
    /\ hsReads = 0 /\ hsWrites = 0

CallersIdle ==
    /\ callOp = <<>> /\ callPc = <<>> /\ callRetry = <<>>

NilStream == [id |-> 0, on |-> 0]

\* the goroutines that call the lock-free client
CnCallers == {1, 2}

\* a goroutine that is in no call: conn and strm are the locals conn and
\* stream (newStream) of the call, ret says where a c.Connect made inside an
\* exchange returns to, prevConn and prevStream are c.conn and c.stream when
\* Connect or Close was entered
IdleCall == [op |-> "none", pc |-> "idle", retry |-> 0, conn |-> 0, strm |-> NilStream,
             ret |-> "return", prevConn |-> 0, prevStream |-> 0]

\* no Connect or Close has just returned
NoLast == [op |-> "none", err |-> "none", prevConn |-> 0, prevStream |-> 0]

\* a client as NewTransferClient leaves it: no connection, no stream
PairIdle ==
    /\ connObj = 0 /\ streamObj = NilStream
    /\ closedConns = {} /\ closedStreams = {}
    /\ dialed = 0 /\ streamsOpened = 0
    /\ cnLast = NoLast
    /\ cnCalls = [g \in CnCallers |-> IdleCall]
    /\ peerClosed = {}

ConnectIdle == PairIdle /\ cnVariant = "locked"

CodecIdle ==
    /\ cdPc = "idle" /\ cdKind = "none" /\ cdHeader = <<>> /\ cdBytes = <<>>
    /\ cdOut = <<>>

AESIdle ==
    /\ aesPc = "idle" /\ aesKey = <<>> /\ aesPlain = <<>> /\ aesCipher = <<>>
    /\ aesOut = [kind |-> "none", data |-> <<>>]

NoOutcome == [kind |-> "none", data |-> <<>>]

ChunkedIdle ==
    /\ chPc = "idle" /\ chIn = <<>> /\ chData = <<>> /\ chOut = NoOutcome

HTTPIdle ==
    /\ httpPc = "idle" /\ httpIn = <<>> /\ httpData = <<>> /\ httpIs = "none"
    /\ httpOut = NoOutcome

NewIdle ==
    /\ ncPc = "idle" /\ ncAddr = "" /\ ncConfig = <<>> /\ ncClient = <<>>

SaveIdle ==
    /\ svPc = "idle" /\ svVariant = "client" /\ svOpts = <<>> /\ svPure = <<>>
    /\ svPackets = 0 /\ svFs = <<>> /\ svResult = <<>> /\ svFile = <<>>

EncIdle ==
    /\ enPc = "idle" /\ enKey = <<>> /\ enIn = <<>> /\ enWire = <<>> /\ enBuf = <<>>
    /\ enResp = <<>> /\ enReads = 0

ApiIdle ==
    /\ apPc = "idle" /\ apOpts = <<>> /\ apI = 0 /\ apConnErr = "nil"
    /\ apTrace = <<>> /\ apResult = <<>>

PureIdle ==
    /\ puPc = "idle" /\ puIn = <<>> /\ puOut = <<>>

LastIdle == ApiIdle /\ PureIdle

EndIdle == NewIdle /\ SaveIdle /\ EncIdle /\ LastIdle

TailIdle == ChunkedIdle /\ HTTPIdle /\ EndIdle

RestIdle == ConnectIdle /\ CodecIdle /\ AESIdle /\ TailIdle

DownloadIdle ==
    /\ dlPc = "off"
    /\ optMaxRetries = 0 /\ optMaxDownloadSize = 0 /\ optReadTimeout = 0
    /\ retries = 0 /\ noDataCount = 0 /\ isComplete = FALSE
    /\ sinceLastRead = 0 /\ readTimeout = 0
    /\ receivedBytes = 0 /\ sentBytes = 0
    /\ wire = <<>>
    /\ lastRead = [n |-> 0, err |-> "none", start |-> 0]
    /\ dlEnd = "none" /\ dlErr = "none" /\ dlResult = NilResult
    /\ totalPureResponse = <<>> /\ packetCount = 0

InitSeg ==
    /\ ClientIdle /\ DownloadIdle /\ TransferIdle /\ HandshakeIdle /\ CallersIdle
    /\ RestIdle
    /\ inGarbage \in Garbages
    /\ inFrames \in FrameSeqs(MaxFrames)
    /\ totalRawResponse = inGarbage \o Wire(inFrames)
    /\ remainingRaw = totalRawResponse
    /\ pureDataBuffer = <<>>
    /\ segPc = "run"
    /\ segLast = "none"

\* one pass through the loop body
SegmentationIteration ==
    /\ segPc = "run"
    /\ Len(remainingRaw) > RESPONSE_HEAD_LEN
    /\ LET it == SegIteration(remainingRaw, pureDataBuffer) IN
         /\ remainingRaw' = it.rem
         /\ pureDataBuffer' = it.pure
         /\ segLast' = it.branch
         /\ segPc' = IF it.brk THEN "done" ELSE "run"
    /\ UNCHANGED <<totalRawResponse, inGarbage, inFrames, cliVars, dlVars,
                   xfVars, hsVars, ccVars, restVars>>

\* the loop condition fails: 20 bytes or fewer remain
SegmentationLoopExit ==
    /\ segPc = "run"
    /\ Len(remainingRaw) <= RESPONSE_HEAD_LEN
    /\ segPc' = "done"
    /\ segLast' = "exit"
    /\ UNCHANGED <<totalRawResponse, remainingRaw, pureDataBuffer, inGarbage,
                   inFrames, cliVars, dlVars, xfVars, hsVars, ccVars, restVars>>

NextSeg == SegmentationIteration \/ SegmentationLoopExit

SpecSeg == InitSeg /\ [][NextSeg]_vars

AllTransfer(fs) == \A i \in 1..Len(fs) : fs[i].cmd = EMM_COMMAND_TRAN_ACK

\* C9: a raw accumulator that is the concatenation of k >= 1 complete framed
\* messages (valid tag, Command neither 0 nor LINK_CLOSE, DataLen = len(body))
\* is segmented into the concatenation of the k bodies, in order.
C9_BodiesConcatenated ==
    (segPc = "done" /\ inGarbage = <<>> /\ AllTransfer(inFrames))
        => pureDataBuffer = BodiesOf(inFrames)

\* C10: 50 bytes of garbage holding no magic tag, followed by exactly one
\* complete valid framed message, are segmented into that message's body,
\* unchanged, whatever the body holds.
C10_ResyncYieldsBody ==
    (segPc = "done" /\ Len(inGarbage) = GarbageLen
        /\ BytesIndex(inGarbage, TagBytes) = -1
        /\ Len(inFrames) = 1 /\ AllTransfer(inFrames))
        => pureDataBuffer = inFrames[1].body

----------------------------------------------------------------------------
(* proto: the request header, and client: transferRequest *)

EMM_COMMAND_TRAN == 6
PROTO_TYPE_HTTP == 2

\* TransferHeader.Marshal: Tag, Version, Command, ProtoType, Option, Reserve,
\* DataLen, Crc, big-endian, 20 bytes
TransferHeaderMarshal(h) ==
    WriteUint32(h.Tag) \o WriteUint16(h.Version) \o WriteUint16(h.Command)
    \o <<h.ProtoType % 256>> \o <<h.Option % 256>> \o WriteUint16(h.Reserve)
    \o WriteUint32(h.DataLen) \o WriteUint32(h.Crc)

transferRequest(requestinfo) ==
    TransferHeaderMarshal(
        [Tag |-> HEAD_TAG, Version |-> PROTO_VERSION, Command |-> EMM_COMMAND_TRAN,
         ProtoType |-> PROTO_TYPE_HTTP, Option |-> 0, Reserve |-> 0,
         DataLen |-> Len(requestinfo), Crc |-> 0]) \o requestinfo

----------------------------------------------------------------------------
(* SpecChunked: parseChunkedBody *)

CRLF == <<13, 10>>
LF == <<10>>

\* the ASCII white space of strings.TrimSpace: \t \n \v \f \r and space
IsSpace(b) == b \in {9, 10, 11, 12, 13, 32}

\* the UTF-8 encodings of the other runes of unicode.IsSpace: U+0085, U+00A0,
\* U+1680, U+2000..U+200A, U+2028, U+2029, U+202F, U+205F, U+3000
SpaceRunes ==
    { <<194, 133>>, <<194, 160>>, <<225, 154, 128>>, <<226, 128, 168>>,
      <<226, 128, 169>>, <<226, 128, 175>>, <<226, 129, 159>>, <<227, 128, 128>> }
    \cup { <<226, 128, b>> : b \in 128..138 }

\* the number of bytes of the white-space rune s begins with, 0 when s does
\* not begin with one (a byte that is no valid encoding is no white space)
LeadingSpace(s) ==
    IF s = <<>> THEN 0
    ELSE IF IsSpace(Head(s)) THEN 1
    ELSE IF \E r \in SpaceRunes : Len(s) >= Len(r) /\ Slice(s, 0, Len(r)) = r
    THEN Len(CHOOSE r \in SpaceRunes : Len(s) >= Len(r) /\ Slice(s, 0, Len(r)) = r)
    ELSE 0

\* the same for the rune s ends with
TrailingSpace(s) ==
    IF s = <<>> THEN 0
    ELSE IF IsSpace(s[Len(s)]) THEN 1
    ELSE IF \E r \in SpaceRunes : Len(s) >= Len(r) /\ SliceFrom(s, Len(s) - Len(r)) = r
    THEN Len(CHOOSE r \in SpaceRunes :
                Len(s) >= Len(r) /\ SliceFrom(s, Len(s) - Len(r)) = r)
    ELSE 0

\* strings.TrimLeftFunc(s, unicode.IsSpace)
RECURSIVE TrimLeft(_)
TrimLeft(s) ==
    IF LeadingSpace(s) > 0 THEN TrimLeft(SliceFrom(s, LeadingSpace(s))) ELSE s

\* strings.TrimRightFunc(s, unicode.IsSpace)
RECURSIVE TrimRight(_)
TrimRight(s) ==
    IF TrailingSpace(s) > 0 THEN TrimRight(Slice(s, 0, Len(s) - TrailingSpace(s)))
    ELSE s

\* strings.TrimSpace
TrimSpace(s) == TrimRight(TrimLeft(s))

\* the ASCII letters A..Z replaced by a..z
LowerASCII(s) == [i \in 1..Len(s) |-> IF s[i] \in 65..90 THEN s[i] + 32 ELSE s[i]]

\* unicode.CaseRanges, the entries with a lower case of their own (Unicode
\* 14.0 and 15.0): <<lo, hi, stride, delta>> says that the runes lo, lo +
\* stride, ... up to hi have the lower case rune + delta
CaseRanges ==
    {<<192, 214, 1, 32>>, <<216, 222, 1, 32>>, <<256, 302, 2, 1>>,
      <<304, 304, 1, -199>>, <<306, 310, 2, 1>>, <<313, 327, 2, 1>>,
      <<330, 374, 2, 1>>, <<376, 376, 1, -121>>, <<377, 381, 2, 1>>,
      <<385, 385, 1, 210>>, <<386, 388, 2, 1>>, <<390, 390, 1, 206>>,
      <<391, 391, 1, 1>>, <<393, 394, 1, 205>>, <<395, 395, 1, 1>>,
      <<398, 398, 1, 79>>, <<399, 399, 1, 202>>, <<400, 400, 1, 203>>,
      <<401, 401, 1, 1>>, <<403, 403, 1, 205>>, <<404, 404, 1, 207>>,
      <<406, 406, 1, 211>>, <<407, 407, 1, 209>>, <<408, 408, 1, 1>>,
      <<412, 412, 1, 211>>, <<413, 413, 1, 213>>, <<415, 415, 1, 214>>,
      <<416, 420, 2, 1>>, <<422, 422, 1, 218>>, <<423, 423, 1, 1>>,
      <<425, 425, 1, 218>>, <<428, 428, 1, 1>>, <<430, 430, 1, 218>>,
      <<431, 431, 1, 1>>, <<433, 434, 1, 217>>, <<435, 437, 2, 1>>,
      <<439, 439, 1, 219>>, <<440, 440, 1, 1>>, <<444, 444, 1, 1>>,
      <<452, 452, 1, 2>>, <<453, 453, 1, 1>>, <<455, 455, 1, 2>>,
      <<456, 456, 1, 1>>, <<458, 458, 1, 2>>, <<459, 475, 2, 1>>,
      <<478, 494, 2, 1>>, <<497, 497, 1, 2>>, <<498, 500, 2, 1>>,
      <<502, 502, 1, -97>>, <<503, 503, 1, -56>>, <<504, 542, 2, 1>>,
      <<544, 544, 1, -130>>, <<546, 562, 2, 1>>, <<570, 570, 1, 10795>>,
      <<571, 571, 1, 1>>, <<573, 573, 1, -163>>, <<574, 574, 1, 10792>>,
      <<577, 577, 1, 1>>, <<579, 579, 1, -195>>, <<580, 580, 1, 69>>,
      <<581, 581, 1, 71>>, <<582, 590, 2, 1>>, <<880, 882, 2, 1>>,
      <<886, 886, 1, 1>>, <<895, 895, 1, 116>>, <<902, 902, 1, 38>>,
      <<904, 906, 1, 37>>, <<908, 908, 1, 64>>, <<910, 911, 1, 63>>,
      <<913, 929, 1, 32>>, <<931, 939, 1, 32>>, <<975, 975, 1, 8>>,
      <<984, 1006, 2, 1>>, <<1012, 1012, 1, -60>>, <<1015, 1015, 1, 1>>,
      <<1017, 1017, 1, -7>>, <<1018, 1018, 1, 1>>, <<1021, 1023, 1, -130>>,
      <<1024, 1039, 1, 80>>, <<1040, 1071, 1, 32>>, <<1120, 1152, 2, 1>>,
      <<1162, 1214, 2, 1>>, <<1216, 1216, 1, 15>>, <<1217, 1229, 2, 1>>,
      <<1232, 1326, 2, 1>>, <<1329, 1366, 1, 48>>, <<4256, 4293, 1, 7264>>,
      <<4295, 4295, 1, 7264>>, <<4301, 4301, 1, 7264>>,
      <<5024, 5103, 1, 38864>>, <<5104, 5109, 1, 8>>,
      <<7312, 7354, 1, -3008>>, <<7357, 7359, 1, -3008>>,
      <<7680, 7828, 2, 1>>, <<7838, 7838, 1, -7615>>, <<7840, 7934, 2, 1>>,
      <<7944, 7951, 1, -8>>, <<7960, 7965, 1, -8>>, <<7976, 7983, 1, -8>>,
      <<7992, 7999, 1, -8>>, <<8008, 8013, 1, -8>>, <<8025, 8031, 2, -8>>,
      <<8040, 8047, 1, -8>>, <<8072, 8079, 1, -8>>, <<8088, 8095, 1, -8>>,
      <<8104, 8111, 1, -8>>, <<8120, 8121, 1, -8>>, <<8122, 8123, 1, -74>>,
      <<8124, 8124, 1, -9>>, <<8136, 8139, 1, -86>>, <<8140, 8140, 1, -9>>,
      <<8152, 8153, 1, -8>>, <<8154, 8155, 1, -100>>, <<8168, 8169, 1, -8>>,
      <<8170, 8171, 1, -112>>, <<8172, 8172, 1, -7>>,
      <<8184, 8185, 1, -128>>, <<8186, 8187, 1, -126>>,
      <<8188, 8188, 1, -9>>, <<8486, 8486, 1, -7517>>,
      <<8490, 8490, 1, -8383>>, <<8491, 8491, 1, -8262>>,
      <<8498, 8498, 1, 28>>, <<8544, 8559, 1, 16>>, <<8579, 8579, 1, 1>>,
      <<9398, 9423, 1, 26>>, <<11264, 11311, 1, 48>>, <<11360, 11360, 1, 1>>,
      <<11362, 11362, 1, -10743>>, <<11363, 11363, 1, -3814>>,
      <<11364, 11364, 1, -10727>>, <<11367, 11371, 2, 1>>,
      <<11373, 11373, 1, -10780>>, <<11374, 11374, 1, -10749>>,
      <<11375, 11375, 1, -10783>>, <<11376, 11376, 1, -10782>>,
      <<11378, 11378, 1, 1>>, <<11381, 11381, 1, 1>>,
      <<11390, 11391, 1, -10815>>, <<11392, 11490, 2, 1>>,
      <<11499, 11501, 2, 1>>, <<11506, 11506, 1, 1>>, <<42560, 42604, 2, 1>>,
      <<42624, 42650, 2, 1>>, <<42786, 42798, 2, 1>>, <<42802, 42862, 2, 1>>,
      <<42873, 42875, 2, 1>>, <<42877, 42877, 1, -35332>>,
      <<42878, 42886, 2, 1>>, <<42891, 42891, 1, 1>>,
      <<42893, 42893, 1, -42280>>, <<42896, 42898, 2, 1>>,
      <<42902, 42920, 2, 1>>, <<42922, 42922, 1, -42308>>,
      <<42923, 42923, 1, -42319>>, <<42924, 42924, 1, -42315>>,
      <<42925, 42925, 1, -42305>>, <<42926, 42926, 1, -42308>>,
      <<42928, 42928, 1, -42258>>, <<42929, 42929, 1, -42282>>,
      <<42930, 42930, 1, -42261>>, <<42931, 42931, 1, 928>>,
      <<42932, 42946, 2, 1>>, <<42948, 42948, 1, -48>>,
      <<42949, 42949, 1, -42307>>, <<42950, 42950, 1, -35384>>,
      <<42951, 42953, 2, 1>>, <<42960, 42960, 1, 1>>, <<42966, 42968, 2, 1>>,
      <<42997, 42997, 1, 1>>, <<65313, 65338, 1, 32>>,
      <<66560, 66599, 1, 40>>, <<66736, 66771, 1, 40>>,
      <<66928, 66938, 1, 39>>, <<66940, 66954, 1, 39>>,
      <<66956, 66962, 1, 39>>, <<66964, 66965, 1, 39>>,
      <<68736, 68786, 1, 64>>, <<71840, 71871, 1, 32>>,
      <<93760, 93791, 1, 32>>, <<125184, 125217, 1, 34>> }

\* unicode.ToLower
UnicodeToLower(r) ==
    IF r < 128 THEN (IF r \in 65..90 THEN r + 32 ELSE r)
    ELSE LET m == { e \in CaseRanges :
                      e[1] <= r /\ r <= e[2] /\ (r - e[1]) % e[3] = 0 }
         IN  IF m = {} THEN r ELSE r + (CHOOSE e \in m : TRUE)[4]

\* utf8.DecodeRuneInString of a string that is not empty: [r, w], the rune and
\* its width in bytes; utf8.RuneError (U+FFFD) with width 1 for a byte that
\* does not start a well-formed sequence (a stray or missing continuation
\* byte, an overlong form, a surrogate, a value beyond U+10FFFF)
DecodeRune(s) ==
    LET b0  == s[1]
        n   == Len(s)
        bad == [r |-> 65533, w |-> 1]
    IN  IF b0 < 128 THEN [r |-> b0, w |-> 1]
        ELSE IF b0 \in 194..223
        THEN IF n >= 2 /\ s[2] \in 128..191
             THEN [r |-> (b0 - 192) * 64 + (s[2] - 128), w |-> 2]
             ELSE bad
        ELSE IF b0 \in 224..239
        THEN IF /\ n >= 3
                /\ s[2] \in (IF b0 = 224 THEN 160..191
                             ELSE IF b0 = 237 THEN 128..159 ELSE 128..191)
                /\ s[3] \in 128..191
             THEN [r |-> ((b0 - 224) * 64 + (s[2] - 128)) * 64 + (s[3] - 128),
                   w |-> 3]
             ELSE bad
        ELSE IF b0 \in 240..244
        THEN IF /\ n >= 4
                /\ s[2] \in (IF b0 = 240 THEN 144..191
                             ELSE IF b0 = 244 THEN 128..143 ELSE 128..191)
                /\ s[3] \in 128..191 /\ s[4] \in 128..191
             THEN [r |-> (((b0 - 240) * 64 + (s[2] - 128)) * 64 + (s[3] - 128)) * 64
                         + (s[4] - 128),
                   w |-> 4]
             ELSE bad
        ELSE bad

\* utf8.AppendRune: the UTF-8 bytes of a rune
EncodeRune(r) ==
    IF r < 128 THEN <<r>>
    ELSE IF r < 2048 THEN <<192 + (r \div 64), 128 + (r % 64)>>
    ELSE IF r < 65536
    THEN <<224 + (r \div 4096), 128 + ((r \div 64) % 64), 128 + (r % 64)>>
    ELSE <<240 + (r \div 262144), 128 + ((r \div 4096) % 64),
           128 + ((r \div 64) % 64), 128 + (r % 64)>>

\* strings.ToLower: strings.Map(unicode.ToLower, s), which takes s rune by
\* rune and writes U+FFFD for every byte that is not part of a well-formed
\* sequence; on a string of ASCII only the letters A..Z change
RECURSIVE ToLower(_)
ToLower(s) ==
    IF s = <<>> THEN <<>>
    ELSE IF Head(s) < 128 THEN <<UnicodeToLower(Head(s))>> \o ToLower(Tail(s))
    ELSE EncodeRune(UnicodeToLower(DecodeRune(s).r))
         \o ToLower(SliceFrom(s, DecodeRune(s).w))

\* the value of one hexadecimal digit, -1 for any other byte
HexDigit(b) ==
    IF b \in 48..57 THEN b - 48
    ELSE IF b \in 97..102 THEN b - 87
    ELSE IF b \in 65..70 THEN b - 55
    ELSE -1

\* the value of hexadecimal digits that fit the model's integers
RECURSIVE HexValue(_, _)
HexValue(s, acc) ==
    IF s = <<>> THEN acc
    ELSE HexValue(Tail(s), acc * 16 + HexDigit(Head(s)))

RECURSIVE StripZeros(_)
StripZeros(s) == IF s # <<>> /\ Head(s) = 48 THEN StripZeros(Tail(s)) ELSE s

Int32HexLen == 8       \* digits of the largest model integer, 7fffffff
Int64HexLen == 16      \* digits of the largest int64, 7fffffffffffffff

\* the digits d (without leading zeros) are a value of at most 2^31 - 1
FitsInt32(d) ==
    Len(d) < Int32HexLen \/ (Len(d) = Int32HexLen /\ HexDigit(d[1]) < 8)

\* MaxInt64 - v for 16 digits d of a value v <= MaxInt64, when that distance
\* is at most 2^31 - 1: the high eight digits are 7fffffff and the low eight
\* are 80000000 + x, the distance is 7fffffff - x. -1 when it is larger, and
\* so beyond every offset the model's integers hold
BelowMaxInt64(d) ==
    IF /\ Len(d) = Int64HexLen /\ HexDigit(d[1]) = 7
       /\ \A i \in 2..Int32HexLen : HexDigit(d[i]) = 15
       /\ HexDigit(d[Int32HexLen + 1]) >= 8
    THEN 2147483647
         - HexValue(<<48 + HexDigit(d[Int32HexLen + 1]) - 8>>
                    \o SubSeq(d, Int32HexLen + 2, Int64HexLen), 0)
    ELSE -1

\* strconv.ParseInt(s, 16, 64): an optional sign, then hex digits; a value
\* outside int64 is an error. The result is [ok, big, v] with the value v when
\* its magnitude is at most 2^31 - 1, the model's integers. A larger
\* magnitude is [ok, big, neg, hex, below]: big is TRUE, neg its sign, hex its
\* digits, and below is MaxInt64 - value when the value is that near to
\* MaxInt64 (else -1).
ParseHex(s) ==
    LET signed == s # <<>> /\ Head(s) \in {43, 45}
        neg == signed /\ Head(s) = 45
        digits == IF signed THEN Tail(s) ELSE s
        d == StripZeros(digits)
        minInt64 == <<56>> \o Repeat(48, Int64HexLen - 1)
    IN  IF digits = <<>> \/ \E i \in 1..Len(digits) : HexDigit(digits[i]) = -1
        THEN [ok |-> FALSE, big |-> FALSE, v |-> 0]
        ELSE IF FitsInt32(d)
        THEN [ok |-> TRUE, big |-> FALSE,
              v |-> IF neg THEN 0 - HexValue(d, 0) ELSE HexValue(d, 0)]
        ELSE IF Len(d) > Int64HexLen
                \/ (Len(d) = Int64HexLen /\ HexDigit(d[1]) >= 8
                    /\ ~(neg /\ d = minInt64))
        THEN [ok |-> FALSE, big |-> FALSE, v |-> 0]
        ELSE [ok |-> TRUE, big |-> TRUE, neg |-> neg, hex |-> LowerASCII(d),
              below |-> IF neg THEN -1 ELSE BelowMaxInt64(d)]

\* chunkStart + int(chunkSize) wraps around to a negative chunkEnd
ChunkEndWraps(size, chunkStart) ==
    size.below # -1 /\ chunkStart > size.below

\* the chunk size line: remaining[:chunkSizeEnd], trimmed, cut at a ';'
ChunkSizeHex(line) ==
    LET t == TrimSpace(line)
        semicolonIndex == BytesIndex(t, <<59>>)
    IN  IF semicolonIndex # -1 THEN Slice(t, 0, semicolonIndex) ELSE t

\* a variant that always skips one byte after the size line
ChunkStartOneByte(remaining, chunkSizeEnd) == chunkSizeEnd + 1

\* if bytes.HasPrefix(remaining[chunkSizeEnd:], "\r\n") { chunkStart =
\* chunkSizeEnd + 2 } else { chunkStart = chunkSizeEnd + 1 }
ChunkStart(remaining, chunkSizeEnd) ==
    IF Slice(remaining, chunkSizeEnd, Min({chunkSizeEnd + 2, Len(remaining)})) = CRLF
    THEN chunkSizeEnd + 2
    ELSE chunkSizeEnd + 1

\* the loop of parseChunkedBody from remaining with result so far: [kind,
\* data], kind "ok", "error", or "panic" for a slice with its end before its
\* start (a negative chunk size, or a chunkEnd that wrapped around)
RECURSIVE ChunkLoop(_, _)
ChunkLoop(remaining, result) ==
    IF Len(remaining) = 0 THEN [kind |-> "ok", data |-> result]
    ELSE
    LET crlf == BytesIndex(remaining, CRLF)
        chunkSizeEnd == IF crlf # -1 THEN crlf ELSE BytesIndex(remaining, LF)
    IN  IF chunkSizeEnd = -1 THEN [kind |-> "error", data |-> <<>>]
        ELSE
        LET size == ParseHex(ChunkSizeHex(Slice(remaining, 0, chunkSizeEnd)))
            chunkStart == ChunkStart(remaining, chunkSizeEnd)
            chunkEnd == chunkStart + size.v
        IN  IF ~size.ok THEN [kind |-> "error", data |-> <<>>]
            \* a size beyond 2^31 - 1: chunkEnd is before chunkStart when the
            \* size is negative or the sum wraps around, it is not
            \* > len(remaining), and remaining[chunkStart:chunkEnd] panics;
            \* any other such chunkEnd is beyond the buffer
            ELSE IF size.big
            THEN IF size.neg \/ ChunkEndWraps(size, chunkStart)
                 THEN [kind |-> "panic", data |-> <<>>]
                 ELSE [kind |-> "ok",
                       data |-> result \o SliceFrom(remaining, chunkStart)]
            ELSE IF size.v = 0 THEN [kind |-> "ok", data |-> result]
            ELSE IF chunkEnd > Len(remaining)
            THEN [kind |-> "ok", data |-> result \o SliceFrom(remaining, chunkStart)]
            ELSE IF chunkEnd < chunkStart THEN [kind |-> "panic", data |-> <<>>]
            ELSE
            LET added == result \o Slice(remaining, chunkStart, chunkEnd)
            IN  IF chunkEnd + 2 <= Len(remaining)
                   /\ Slice(remaining, chunkEnd, chunkEnd + 2) = CRLF
                THEN ChunkLoop(SliceFrom(remaining, chunkEnd + 2), added)
                ELSE IF chunkEnd + 1 <= Len(remaining) /\ remaining[chunkEnd + 1] = 10
                THEN ChunkLoop(SliceFrom(remaining, chunkEnd + 1), added)
                ELSE IF chunkEnd < Len(remaining)
                THEN ChunkLoop(SliceFrom(remaining, chunkEnd), added)
                ELSE [kind |-> "ok", data |-> added]

parseChunkedBody(chunkedBody) == ChunkLoop(chunkedBody, <<>>)

MaxChunks == 2         \* chunks before the zero-size chunk

\* n > 0 in hexadecimal, in lower or upper case
RECURSIVE FormatHex(_, _)
FormatHex(n, upper) ==
    LET d == n % 16
        c == IF d < 10 THEN 48 + d ELSE IF upper THEN 55 + d ELSE 87 + d
    IN  IF n < 16 THEN <<c>> ELSE FormatHex(n \div 16, upper) \o <<c>>

\* chunk data: "Wiki", "pedia", data holding a CRLF, and 26 letters (size 1a)
ChunkData ==
    { <<87, 105, 107, 105>>, <<112, 101, 100, 105, 97>>, <<97, 13, 10, 98>>,
      [i \in 1..26 |-> 96 + i] }

RECURSIVE ChunkLists(_)
ChunkLists(n) ==
    IF n = 0 THEN {<<>>}
    ELSE ChunkLists(n - 1)
         \cup { <<d>> \o l : d \in ChunkData, l \in ChunkLists(n - 1) }

\* what follows the size line of the zero-size chunk: the final CRLF, a
\* trailer field, or bytes that look like one more chunk
Trailers ==
    { CRLF, <<88, 58, 32, 49, 13, 10, 13, 10>>,
      CRLF \o <<53, 13, 10, 104, 101, 108, 108, 111, 13, 10>> }

RECURSIVE EncodeChunks(_, _)
EncodeChunks(chunks, upper) ==
    IF chunks = <<>> THEN <<48>> \o CRLF
    ELSE FormatHex(Len(Head(chunks)), upper) \o CRLF \o Head(chunks) \o CRLF
         \o EncodeChunks(Tail(chunks), upper)

RECURSIVE ConcatAll(_)
ConcatAll(ss) == IF ss = <<>> THEN <<>> ELSE Head(ss) \o ConcatAll(Tail(ss))

\* the body for in: well-formed when nothing is cut off its end
ChunkedBodyOf(in) ==
    LET whole == EncodeChunks(in.chunks, in.upper) \o in.trailer
    IN  Slice(whole, 0, Len(whole) - in.cut)

InitChunked ==
    /\ SegIdle /\ DownloadIdle /\ TransferIdle /\ HandshakeIdle /\ CallersIdle
    /\ inFrames = <<>>
    /\ ClientIdle /\ ConnectIdle /\ CodecIdle /\ AESIdle /\ HTTPIdle /\ EndIdle
    /\ chPc = "body"
    /\ chIn \in [chunks : ChunkLists(MaxChunks), upper : BOOLEAN,
                 trailer : Trailers, cut : {0, 3}]
    /\ chData = ChunkedBodyOf(chIn)
    /\ chOut = NoOutcome

ParseChunkedBody ==
    /\ chPc = "body"
    /\ chOut' = parseChunkedBody(chData)
    /\ chPc' = "parsed"
    /\ UNCHANGED <<segVars, cliVars, dlVars, xfVars, hsVars, ccVars, ctVars, cdVars,
                   aesVars, httpVars, endVars, chIn, chData>>

NextChunked == ParseChunkedBody

SpecChunked == InitChunked /\ [][NextChunked]_vars

\* C19: for a well-formed chunked body parseChunkedBody returns the chunk data
\* concatenated in order, whatever follows the zero-size chunk.
C19_ChunksConcatenated ==
    (chPc = "parsed" /\ chIn.cut = 0)
        => (chOut.kind = "ok" /\ chOut.data = ConcatAll(chIn.chunks))

\* "4\r\nWiki\r\n5\r\npedia\r\n0\r\n\r\n" yields "Wikipedia"
C19_Witness ==
    /\ chPc = "parsed"
    /\ chData = <<52, 13, 10, 87, 105, 107, 105, 13, 10, 53, 13, 10, 112, 101,
                  100, 105, 97, 13, 10, 48, 13, 10, 13, 10>>
    /\ chOut.data = <<87, 105, 107, 105, 112, 101, 100, 105, 97>>

----------------------------------------------------------------------------
(* SpecHTTP: isHTTPResponse and parseHTTPResponse *)

HasPrefix(s, p) == Len(s) >= Len(p) /\ Slice(s, 0, Len(p)) = p

Contains(s, p) == BytesIndex(s, p) # -1

IsDigit(b) == b \in 48..57

\* the length of the longest run of bytes satisfying a digit/space test that
\* starts at zero-based position i
RECURSIVE SpaceRun(_, _)
SpaceRun(s, i) == IF i < Len(s) /\ IsSpace(s[i + 1]) /\ s[i + 1] # 11
                  THEN 1 + SpaceRun(s, i + 1) ELSE 0

RECURSIVE DigitRun(_, _)
DigitRun(s, i) == IF i < Len(s) /\ IsDigit(s[i + 1]) THEN 1 + DigitRun(s, i + 1) ELSE 0

\* HTTP/\d\.\d at zero-based position i (fold: the (?i) flag)
VersionAt(s, i, fold) ==
    /\ i + 8 <= Len(s)
    /\ (IF fold THEN LowerASCII(Slice(s, i, i + 5)) ELSE Slice(s, i, i + 5))
            = (IF fold THEN LowerASCII(HttpPrefix) ELSE HttpPrefix)
    /\ IsDigit(s[i + 6]) /\ s[i + 7] = 46 /\ IsDigit(s[i + 8])

\* the match of HTTP/\d\.\d\s+(\d+)\s+ that starts at i: the digits of the
\* group, or <<>> when there is no match at i. \s and \d are disjoint, so the
\* runs are the maximal ones.
StatusAt(s, i, fold) ==
    IF ~VersionAt(s, i, fold) THEN <<>>
    ELSE LET sp == SpaceRun(s, i + 8)
             dg == DigitRun(s, i + 8 + sp)
         IN  IF sp > 0 /\ dg > 0 /\ SpaceRun(s, i + 8 + sp + dg) > 0
             THEN Slice(s, i + 8 + sp, i + 8 + sp + dg)
             ELSE <<>>

\* regexp `HTTP/\d\.\d\s+(\d+)\s+`, FindStringSubmatch: the group of the
\* leftmost match, <<>> when nothing matches
StatusMatch(statusLine) ==
    LET hits == { i \in 0..Len(statusLine) : StatusAt(statusLine, i, FALSE) # <<>> }
    IN  IF hits = {} THEN <<>> ELSE StatusAt(statusLine, Min(hits), FALSE)

\* regexp `(?i)HTTP/\d\.\d\s+\d{3}\s+`, MatchString: after the spaces exactly
\* three digits, then a space
StatusLinePattern(data) ==
    \E i \in 0..Len(data) :
        /\ VersionAt(data, i, TRUE)
        /\ LET sp == SpaceRun(data, i + 8)
           IN  sp > 0 /\ DigitRun(data, i + 8 + sp) = 3
               /\ SpaceRun(data, i + 8 + sp + 3) > 0

commonHeaders ==
    { <<67, 111, 110, 116, 101, 110, 116, 45, 84, 121, 112, 101, 58>>,
      <<67, 111, 110, 116, 101, 110, 116, 45, 76, 101, 110, 103, 116, 104, 58>>,
      <<83, 101, 114, 118, 101, 114, 58>>,
      <<68, 97, 116, 101, 58>>,
      <<76, 97, 115, 116, 45, 77, 111, 100, 105, 102, 105, 101, 100, 58>>,
      <<69, 84, 97, 103, 58>>,
      <<67, 97, 99, 104, 101, 45, 67, 111, 110, 116, 114, 111, 108, 58>>,
      <<65, 99, 99, 101, 115, 115, 45, 67, 111, 110, 116, 114, 111, 108, 45, 65, 108, 108,
          111, 119, 45, 79, 114, 105, 103, 105, 110, 58>> }

MaxPrefixScan == 100
MinHTTPLen == 10

isHTTPResponse(data) ==
    IF Len(data) < MinHTTPLen THEN FALSE
    ELSE IF HasPrefix(data, HttpPrefix) THEN TRUE
    ELSE
    LET httpPosition == BytesIndex(data, HttpPrefix)
        trimmedPrefix == TrimSpace(Slice(data, 0, httpPosition))
        headerCount == Cardinality({ h \in commonHeaders : Contains(data, h) })
    IN  IF /\ httpPosition > 0 /\ httpPosition < MaxPrefixScan
           /\ (Len(trimmedPrefix) = 0 \/ Contains(trimmedPrefix, LF))
        THEN TRUE
        ELSE IF headerCount >= 2
        THEN \/ StatusLinePattern(data)
             \/ Contains(data, CRLF \o CRLF) \/ Contains(data, LF \o LF)
             \/ headerCount >= 3
        ELSE FALSE

\* strings.Split(s, sep)
RECURSIVE Split(_, _)
Split(s, sep) ==
    LET i == BytesIndex(s, sep)
    IN  IF i = -1 THEN <<s>>
        ELSE <<Slice(s, 0, i)>> \o Split(SliceFrom(s, i + Len(sep)), sep)

\* strings.ReplaceAll(s, "\n", "\r\n")
RECURSIVE ReplaceLF(_)
ReplaceLF(s) ==
    IF s = <<>> THEN <<>>
    ELSE (IF Head(s) = 10 THEN CRLF ELSE <<Head(s)>>) \o ReplaceLF(Tail(s))

RECURSIVE DecimalValue(_, _)
DecimalValue(s, acc) ==
    IF s = <<>> THEN acc
    ELSE DecimalValue(Tail(s), acc * 10 + (Head(s) - 48))

\* a <= b for two digit strings of one length
RECURSIVE DigitsLE(_, _)
DigitsLE(a, b) ==
    IF a = <<>> THEN TRUE
    ELSE IF Head(a) # Head(b) THEN Head(a) < Head(b)
    ELSE DigitsLE(Tail(a), Tail(b))

\* the digits d (without leading zeros) are at most the digits max
DigitsAtMost(d, max) ==
    Len(d) < Len(max) \/ (Len(d) = Len(max) /\ DigitsLE(d, max))

MaxInt32Dec == <<50, 49, 52, 55, 52, 56, 51, 54, 52, 55>>    \* "2147483647"
MaxInt64Dec == <<57, 50, 50, 51, 51, 55, 50, 48, 51, 54, 56, 53, 52, 55, 55, 53,
                 56, 48, 55>>                       \* "9223372036854775807"
MinInt64Dec == <<57, 50, 50, 51, 51, 55, 50, 48, 51, 54, 56, 53, 52, 55, 55, 53,
                 56, 48, 56>>                       \* "9223372036854775808"
MaxUint64Dec == <<49, 56, 52, 52, 54, 55, 52, 52, 48, 55, 51, 55, 48, 57, 53, 53,
                  49, 54, 49, 53>>                  \* "18446744073709551615"

\* the digits s begins with
RECURSIVE LeadingDigits(_)
LeadingDigits(s) ==
    IF s = <<>> \/ ~IsDigit(Head(s)) THEN <<>>
    ELSE <<Head(s)>> \o LeadingDigits(Tail(s))

\* strconv.Atoi: an optional sign, then decimal digits; ok is err == nil. The
\* result is [ok, big, v] with the value v when its magnitude is at most
\* 2^31 - 1, the model's integers; a larger magnitude is [ok, big, neg, dec]
\* with its sign and its digits. The value that comes with an error is 0 for
\* a syntax error and the nearest int64 for a value outside int64. The bytes
\* are read from the left and the first failure ends the call: digits that
\* already exceed 2^64 - 1 give the range error, whatever follows them.
Atoi(s) ==
    LET signed == s # <<>> /\ Head(s) \in {43, 45}
        neg == signed /\ Head(s) = 45
        digits == IF signed THEN Tail(s) ELSE s
        lead == LeadingDigits(digits)
        d == StripZeros(digits)
        range == [ok |-> FALSE, big |-> TRUE, neg |-> neg,
                  dec |-> IF neg THEN MinInt64Dec ELSE MaxInt64Dec]
    IN  IF digits = <<>> THEN [ok |-> FALSE, big |-> FALSE, v |-> 0]
        ELSE IF lead # digits
        THEN IF lead # <<>> /\ ~DigitsAtMost(StripZeros(lead), MaxUint64Dec)
             THEN range
             ELSE [ok |-> FALSE, big |-> FALSE, v |-> 0]
        ELSE IF DigitsAtMost(d, MaxInt32Dec)
        THEN [ok |-> TRUE, big |-> FALSE,
              v |-> IF neg THEN 0 - DecimalValue(d, 0) ELSE DecimalValue(d, 0)]
        ELSE IF DigitsAtMost(d, IF neg THEN MinInt64Dec ELSE MaxInt64Dec)
        THEN [ok |-> TRUE, big |-> TRUE, neg |-> neg, dec |-> d]
        ELSE range

\* x > 0 and x > n for a result x of Atoi and a model integer n
Positive(x) == IF x.big THEN ~x.neg ELSE x.v > 0
Exceeds(x, n) == IF x.big THEN ~x.neg ELSE x.v > n

NoHeaders == [k \in {} |-> <<>>]

\* a variant that keeps the first value of a repeated key
SetHeaderKeepFirst(m, key, value) ==
    [k \in DOMAIN m \cup {key} |-> IF k \in DOMAIN m THEN m[k] ELSE value]

\* result.Headers[key] = value
SetHeader(m, key, value) ==
    [k \in DOMAIN m \cup {key} |-> IF k = key THEN value ELSE m[k]]

\* the loop over headerLines[1:]: strings.SplitN(line, ":", 2), both parts
\* trimmed; empty lines and lines without a colon are passed over
RECURSIVE ParseHeaderLines(_, _, _)
ParseHeaderLines(headerLines, i, m) ==
    IF i > Len(headerLines) THEN m
    ELSE LET line  == headerLines[i]
             colon == BytesIndex(line, <<58>>)
         IN  IF line = <<>> \/ colon = -1
             THEN ParseHeaderLines(headerLines, i + 1, m)
             ELSE ParseHeaderLines(headerLines, i + 1,
                    SetHeader(m, TrimSpace(Slice(line, 0, colon)),
                              TrimSpace(SliceFrom(line, colon + 1))))

ContentLengthKey == <<67, 111, 110, 116, 101, 110, 116, 45, 76, 101, 110, 103, 116,
    104>>    \* "Content-Length"
TransferEncodingKey == <<84, 114, 97, 110, 115, 102, 101, 114, 45, 69, 110, 99, 111, 100, 105,
    110, 103>>    \* "Transfer-Encoding"
ChunkedValue == <<99, 104, 117, 110, 107, 101, 100>>    \* "chunked"

HTTPError == [kind |-> "error", StatusCode |-> 0, Headers |-> NoHeaders, Body |-> <<>>]

\* strconv.Atoi of the status line's group: [ok |-> FALSE] without a match
StatusOf(statusMatch) ==
    IF statusMatch # <<>> THEN Atoi(statusMatch) ELSE [ok |-> FALSE, big |-> FALSE, v |-> 0]

\* strconv.Atoi of the Content-Length header: [ok |-> FALSE] without the header
ContentLengthOf(hdrs) ==
    IF ContentLengthKey \in DOMAIN hdrs THEN Atoi(hdrs[ContentLengthKey])
    ELSE [ok |-> FALSE, big |-> FALSE, v |-> 0]

\* parseHTTPResponse from the header block of data, which ends at
\* headerBodySplit
ParseHeaderBlock(data, headerBodySplit) ==
    Call2(LAMBDA headerLines, body :
    Call2(LAMBDA status, hdrs :
    Call2(LAMBDA chunked, cl :
    Call1(LAMBDA unchunked :
    Call1(LAMBDA body2 :
    Call1(LAMBDA bodyBytes :
        IF chunked /\ unchunked.kind = "panic"
        THEN [HTTPError EXCEPT !.kind = "panic"]
        \* a status code beyond 2^31 - 1 is held by its digits
        ELSE IF status.ok /\ status.big
        THEN [kind |-> "ok", StatusDigits |-> status.dec, Headers |-> hdrs,
              Body |-> bodyBytes]
        ELSE [kind |-> "ok", StatusCode |-> IF status.ok THEN status.v ELSE 0,
              Headers |-> hdrs, Body |-> bodyBytes],
      \* bodyBytes: contentLength, -1 unless Atoi succeeded, is > 0
      IF Len(body2) = 0 /\ cl.ok /\ Positive(cl) /\ headerBodySplit + 4 < Len(data)
      THEN SliceFrom(data, headerBodySplit + 4) ELSE body2),
      \* body2
      IF chunked /\ unchunked.kind = "ok" THEN unchunked.data ELSE body),
      \* unchunked
      IF chunked THEN parseChunkedBody(body) ELSE [kind |-> "none"]),
      \* chunked, cl
      /\ TransferEncodingKey \in DOMAIN hdrs
      /\ ToLower(hdrs[TransferEncodingKey]) = ChunkedValue,
      ContentLengthOf(hdrs)),
      \* status, hdrs
      StatusOf(StatusMatch(headerLines[1])), ParseHeaderLines(headerLines, 2, NoHeaders)),
      \* headerLines, body
      Split(Slice(data, 0, headerBodySplit), CRLF),
      IF headerBodySplit + 4 < Len(data) THEN SliceFrom(data, headerBodySplit + 4)
      ELSE <<>>)

\* parseHTTPResponse from the point where data starts at the status line
ParseFromStatusLine(data0) ==
    Call2(LAMBDA crlf2, lf2 :
        IF crlf2 = -1 /\ lf2 = -1 THEN HTTPError
        ELSE IF crlf2 # -1 THEN Call2(ParseHeaderBlock, data0, crlf2)
        \* the "\n\n" branch rewrites data with CRLF line ends
        ELSE Call1(LAMBDA lfHeaders :
                     Call2(ParseHeaderBlock,
                           lfHeaders \o CRLF \o CRLF \o SliceFrom(data0, lf2 + 2),
                           Len(lfHeaders)),
                   ReplaceLF(Slice(data0, 0, lf2))),
      BytesIndex(data0, CRLF \o CRLF), BytesIndex(data0, LF \o LF))

parseHTTPResponse(data) ==
    IF Len(data) = 0 THEN HTTPError
    ELSE Call1(ParseFromStatusLine,
               IF ~HasPrefix(data, HttpPrefix) /\ BytesIndex(data, HttpPrefix) > 0
               THEN SliceFrom(data, BytesIndex(data, HttpPrefix)) ELSE data)

MaxHeaders == 2        \* header lines of a payload

\* status lines: line, the code it carries, and whether a space follows the code
StatusLines ==
    { [line |-> <<72, 84, 84, 80, 47, 49, 46, 49, 32, 50, 48, 48, 32, 79, 75>>, code |-> 200,
        spaced |-> TRUE],
      [line |-> <<72, 84, 84, 80, 47, 49, 46, 48, 32, 52, 48, 52, 32, 78, 111, 116, 32, 70,
          111, 117, 110, 100>>, code |-> 404, spaced |-> TRUE],
      [line |-> <<72, 84, 84, 80, 47, 50, 46, 48, 32, 50, 48, 52, 32>>, code |-> 204,
          spaced |-> TRUE],
      [line |-> <<72, 84, 84, 80, 47, 49, 46, 49, 32, 50, 48, 52>>, code |-> 204,
          spaced |-> FALSE] }

\* header fields: key, value, and the blanks written around the value
HeaderFields ==
    { [key |-> ContentLengthKey, value |-> <<53>>, lead |-> <<32>>, trail |-> <<>>],
      [key |-> ContentLengthKey, value |-> <<55>>, lead |-> <<>>, trail |-> <<32>>],
      [key |-> <<67, 111, 110, 116, 101, 110, 116, 45, 84, 121, 112, 101>>, value |-> <<116,
          101, 120, 116, 47, 112, 108, 97, 105, 110>>, lead |-> <<32, 9>>, trail |-> <<32>>],
      [key |-> <<76, 111, 99, 97, 116, 105, 111, 110>>, value |-> <<97, 58, 98>>,
          lead |-> <<32>>, trail |-> <<>>],
      [key |-> TransferEncodingKey, value |-> ChunkedValue, lead |-> <<32>>,
       trail |-> <<>>] }

RECURSIVE HeaderLists(_)
HeaderLists(n) ==
    IF n = 0 THEN {<<>>}
    ELSE HeaderLists(n - 1)
         \cup { <<f>> \o l : f \in HeaderFields, l \in HeaderLists(n - 1) }

\* bodies: empty, "hello", a chunked body, a body holding CRLF CRLF
HTTPBodies == { <<>>, <<104, 101, 108, 108, 111>>, <<52, 13, 10, 87, 105, 107, 105, 13, 10,
    48, 13, 10, 13, 10>>, <<97, 13, 10, 13, 10, 98>> }

\* payloads that are not built from parts: short ones, a noise prefix, header
\* names without a status line, plain text
RawPayloads == { <<72, 84, 84, 80, 47, 49, 46, 49>>, <<72, 84, 84, 80, 47>>, <<13, 10, 72, 84,
    84, 80, 47, 49, 46, 49, 32, 50, 48, 48, 32, 79, 75, 13, 10, 13, 10, 104, 105>>, <<120,
        120, 32, 72, 84, 84, 80, 47, 49, 46, 49, 32, 50, 48, 48, 32, 79, 75, 13, 10, 13, 10,
            104, 105>>, <<67, 111, 110, 116, 101, 110, 116, 45, 84, 121, 112, 101, 58, 32, 97,
                10, 83, 101, 114, 118, 101, 114, 58, 32, 98, 10, 10, 98, 111, 100, 121>>,
                    <<104, 101, 108, 108, 111, 32, 119, 111, 114, 108, 100, 33>> }

RECURSIVE HeaderBlock(_)
HeaderBlock(fields) ==
    IF fields = <<>> THEN <<>>
    ELSE LET f == Head(fields)
         IN  f.key \o <<58>> \o f.lead \o f.value \o f.trail \o CRLF
             \o HeaderBlock(Tail(fields))

PayloadOf(in) ==
    IF in.kind = "raw" THEN in.body
    ELSE in.status.line \o CRLF \o HeaderBlock(in.headers) \o CRLF \o in.body

RawStatus == [line |-> <<>>, code |-> 0, spaced |-> FALSE]

InitHTTP ==
    /\ SegIdle /\ DownloadIdle /\ TransferIdle /\ HandshakeIdle /\ CallersIdle
    /\ inFrames = <<>>
    /\ ClientIdle /\ ConnectIdle /\ CodecIdle /\ AESIdle /\ ChunkedIdle /\ EndIdle
    /\ httpPc = "payload"
    /\ httpIn \in [kind : {"built"}, status : StatusLines,
                   headers : HeaderLists(MaxHeaders), body : HTTPBodies]
              \cup [kind : {"raw"}, status : {RawStatus}, headers : {<<>>},
                    body : RawPayloads]
    /\ httpData = PayloadOf(httpIn)
    /\ httpIs = "none"
    /\ httpOut = NoOutcome

IsHTTPResponse ==
    /\ httpPc = "payload" /\ httpIs = "none"
    /\ httpIs' = IF isHTTPResponse(httpData) THEN "true" ELSE "false"
    /\ UNCHANGED <<segVars, cliVars, dlVars, xfVars, hsVars, ccVars, ctVars, cdVars,
                   aesVars, chVars, endVars, httpPc, httpIn, httpData, httpOut>>

ParseHTTPResponse ==
    /\ httpPc = "payload" /\ httpOut.kind = "none"
    /\ httpOut' = parseHTTPResponse(httpData)
    /\ UNCHANGED <<segVars, cliVars, dlVars, xfVars, hsVars, ccVars, ctVars, cdVars,
                   aesVars, chVars, endVars, httpPc, httpIn, httpData, httpIs>>

NextHTTP == IsHTTPResponse \/ ParseHTTPResponse

SpecHTTP == InitHTTP /\ [][NextHTTP]_vars

\* the header map a list of fields stands for: the last value of each key
RECURSIVE LastValue(_, _)
LastValue(fields, key) ==
    IF fields[Len(fields)].key = key THEN fields[Len(fields)].value
    ELSE LastValue(Slice(fields, 0, Len(fields) - 1), key)

ExpectedHeaders(fields) ==
    [k \in { fields[i].key : i \in 1..Len(fields) } |-> LastValue(fields, k)]

HasTransferEncoding(fields) ==
    \E i \in 1..Len(fields) : fields[i].key = TransferEncodingKey

WellFormedParsed ==
    /\ httpOut.kind # "none" /\ httpIn.kind = "built" /\ httpIn.status.spaced

\* C18 as stated: StatusCode is the code of the status line, Headers maps each
\* key to its trimmed last value, and Body is exactly the bytes after the
\* first CRLF CRLF.
C18_BodyIsRawBytes ==
    WellFormedParsed
        => (/\ httpOut.kind = "ok"
            /\ httpOut.StatusCode = httpIn.status.code
            /\ httpOut.Headers = ExpectedHeaders(httpIn.headers)
            /\ httpOut.Body = httpIn.body)

\* C18 (amended): the same, with Body the bytes after the first CRLF CRLF when
\* the payload carries no Transfer-Encoding header.
C18_ParsedFields ==
    WellFormedParsed
        => (/\ httpOut.kind = "ok"
            /\ httpOut.StatusCode = httpIn.status.code
            /\ httpOut.Headers = ExpectedHeaders(httpIn.headers)
            /\ (~HasTransferEncoding(httpIn.headers) => httpOut.Body = httpIn.body))

\* "HTTP/1.1 200 OK\r\nContent-Length: 5\r\n\r\nhello" yields 200, "5", "hello"
C18_Witness ==
    /\ httpData = <<72, 84, 84, 80, 47, 49, 46, 49, 32, 50, 48, 48, 32, 79, 75, 13, 10, 67,
        111, 110, 116, 101, 110, 116, 45, 76, 101, 110, 103, 116, 104, 58, 32, 53, 13, 10, 13,
            10, 104, 101, 108, 108, 111>>
    /\ httpOut.kind = "ok" /\ httpOut.StatusCode = 200
    /\ httpOut.Headers[ContentLengthKey] = <<53>>
    /\ httpOut.Body = <<104, 101, 108, 108, 111>>

\* C20: isHTTPResponse is true for every payload that starts with "HTTP/",
\* whatever its length.
C20_PrefixMeansHTTP ==
    (httpIs # "none" /\ HasPrefix(httpData, HttpPrefix)) => httpIs = "true"

----------------------------------------------------------------------------
(* SpecSave: SendTransferRequestWithDownload from the end of the segmentation
   pass to its return: HTTP detection, the digest and the file. Two builds of
   download.go exist, the one in package client ("client") and the one under
   pkg/client ("pkg"); they differ in what is written to the file. *)

\* md5.Sum followed by fmt.Sprintf("%x"): the 32 hex digits of the digest
MD5Hex(data) == HexEncode(MD5Sum(data))

NoHTTPInfo == [kind |-> "nil", IsHTTP |-> FALSE, StatusCode |-> 0,
               Headers |-> NoHeaders, Body |-> <<>>]

\* the two repairs of an empty body, on parseHTTPResponse's result r; cl is
\* strconv.Atoi's value with its error dropped
RepairBody(pure, r) ==
    Call1(LAMBDA cl :
    Call1(LAMBDA body1 :
        IF /\ "StatusCode" \in DOMAIN r /\ r.StatusCode = 200 /\ Len(body1) = 0
           /\ Positive(cl) /\ ~Exceeds(cl, Len(pure))
        THEN pure ELSE body1,
      \* body1
      IF /\ Len(r.Body) = 0 /\ Positive(cl)
         /\ BytesIndex(pure, CRLF \o CRLF) # -1
         /\ BytesIndex(pure, CRLF \o CRLF) + 4 < Len(pure)
      THEN SliceFrom(pure, BytesIndex(pure, CRLF \o CRLF) + 4) ELSE r.Body),
      ContentLengthOf(r.Headers))

\* an *HTTPResponseInfo with the status and the headers of r and the body b
InfoOf(r, b) ==
    IF "StatusCode" \notin DOMAIN r
    THEN [kind |-> "info", IsHTTP |-> TRUE, StatusDigits |-> r.StatusDigits,
          Headers |-> r.Headers, Body |-> b]
    ELSE [kind |-> "info", IsHTTP |-> TRUE, StatusCode |-> r.StatusCode,
          Headers |-> r.Headers, Body |-> b]

\* result.HTTPInfo after parseHTTPResponse returned r and the two repairs
\* (kind "panic": parseHTTPResponse panicked)
HTTPInfoOf(pure, r) ==
    IF r.kind = "panic" THEN [NoHTTPInfo EXCEPT !.kind = "panic"]
    ELSE IF r.kind # "ok" THEN NoHTTPInfo
    ELSE InfoOf(r, RepairBody(pure, r))

\* regexp `Content-Length: (\d+)`, FindStringSubmatch: the digits of the
\* leftmost match, <<>> when nothing matches
ContentLengthMatch(s) ==
    LET pat  == ContentLengthKey \o <<58, 32>>
        hits == { i \in 0..Len(s) : /\ HasPrefix(SliceFrom(s, i), pat)
                                    /\ DigitRun(s, i + Len(pat)) > 0 }
    IN  Call1(LAMBDA h : IF h = {} THEN <<>>
                         ELSE Slice(s, Min(h) + Len(pat),
                                    Min(h) + Len(pat) + DigitRun(s, Min(h) + Len(pat))),
              hits)

\* the pkg build's *HTTPResponseInfo of a single packet whose header block is
\* httpHeaders, with the body taken to start RESPONSE_HEAD_LEN bytes after it
SpecialInfo(httpHeaders, body) ==
    Call2(LAMBDA status, hdrs :
            InfoOf(IF status.big THEN [StatusDigits |-> status.dec, Headers |-> hdrs]
                   ELSE [StatusCode |-> status.v, Headers |-> hdrs], body),
          \* strconv.Atoi's value with its error dropped
          StatusOf(StatusMatch(httpHeaders)),
          ParseHeaderLines(Split(httpHeaders, CRLF), 2, NoHeaders))

\* the pkg build when packetCount == 1; regular is what
\* parseHTTPResponse(pure) returns, where it is called
SinglePacketInfo(pure, regular) ==
    Call1(LAMBDA headerBodySplit :
        IF headerBodySplit = -1 \/ headerBodySplit + 4 + RESPONSE_HEAD_LEN >= Len(pure)
        THEN Call1(LAMBDA r : IF r.kind = "panic" THEN [NoHTTPInfo EXCEPT !.kind = "panic"]
                              ELSE IF r.kind = "ok" THEN InfoOf(r, r.Body)
                              ELSE NoHTTPInfo, regular)
        ELSE
        Call2(LAMBDA httpHeaders, body :
        Call2(LAMBDA httpInfo, lengthMatch :
            \* contentLength, -1 without a match, is > 0 and <= len(body)
            IF /\ lengthMatch # <<>> /\ Positive(Atoi(lengthMatch))
               /\ ~Exceeds(Atoi(lengthMatch), Len(body))
            THEN httpInfo
            ELSE Call1(LAMBDA r :
                    IF r.kind = "panic" THEN [NoHTTPInfo EXCEPT !.kind = "panic"]
                    ELSE IF r.kind = "ok"
                    THEN InfoOf(r, IF Len(r.Body) = 0 THEN body ELSE r.Body)
                    ELSE httpInfo, regular),
          SpecialInfo(httpHeaders, body), ContentLengthMatch(httpHeaders)),
          Slice(pure, 0, headerBodySplit),
          SliceFrom(pure, headerBodySplit + 4 + RESPONSE_HEAD_LEN)),
      BytesIndex(pure, CRLF \o CRLF))

\* result.HTTPInfo once isHTTPResponse has held; regular is what
\* parseHTTPResponse(pure) returns, where it is called
DetectedInfo(single, pure, regular) ==
    IF single THEN SinglePacketInfo(pure, regular)
    ELSE Call1(LAMBDA r : HTTPInfoOf(pure, r), regular)

\* the HTTP detection block: result.HTTPInfo for the pure payload of packets
\* reads
ExtractHTTPInfo(variant, pure, packets) ==
    IF Len(pure) > 0 /\ isHTTPResponse(pure)
    THEN DetectedInfo(variant = "pkg" /\ packets = 1, pure, parseHTTPResponse(pure))
    ELSE NoHTTPInfo

EMMHeaderLen == 20     \* the bytes cleanEMMHeader drops at a marker
MinCleanLen == 24      \* shorter data is returned as it is

\* the loop of cleanEMMHeader from index i on: [cleaned, lastEnd, found]
RECURSIVE CleanLoop(_, _, _)
CleanLoop(data, i, st) ==
    IF i > Len(data) - 4 THEN st
    ELSE IF Slice(data, i, i + 4) = TagBytes /\ i + EMMHeaderLen <= Len(data)
    THEN CleanLoop(data, i + 1,
            [cleaned |-> IF i > st.lastEnd
                         THEN st.cleaned \o Slice(data, st.lastEnd, i)
                         ELSE st.cleaned,
             lastEnd |-> i + EMMHeaderLen,
             found |-> st.found + 1])
    ELSE CleanLoop(data, i + 1, st)

cleanEMMHeader(data) ==
    IF Len(data) < MinCleanLen THEN data
    ELSE LET st == CleanLoop(data, 0, [cleaned |-> <<>>, lastEnd |-> 0, found |-> 0])
             cleanedData == IF st.lastEnd < Len(data)
                            THEN st.cleaned \o SliceFrom(data, st.lastEnd)
                            ELSE st.cleaned
         IN  IF st.found = 0 \/ Len(cleanedData) = 0 THEN data ELSE cleanedData

\* the content the digest is taken of
ContentToSave(info, pure, detectHTTP) ==
    IF info.kind = "info" /\ info.IsHTTP /\ detectHTTP THEN info.Body ELSE pure

\* the bytes handed to os.WriteFile
FileContent(variant, contentToSave) ==
    IF variant = "pkg" THEN cleanEMMHeader(contentToSave) ELSE contentToSave

NoFile == [path |-> <<>>, data |-> <<>>]

\* from the digest md5sum of contentToSave to the return:
\* [MD5Sum, FilePath, err, file]
SaveStep(variant, opts, fs, contentToSave, md5sum) ==
    LET saveDir == IF opts.SaveDir = "" THEN "." ELSE opts.SaveDir
        filePath == <<saveDir, opts.FileNamePrefix, md5sum>>
        base == [MD5Sum |-> md5sum, FilePath |-> <<>>, err |-> "nil", file |-> NoFile]
    IN  IF ~opts.SaveToFile THEN base
        ELSE IF ~fs.mkdir THEN [base EXCEPT !.err = "mkdir"]
        ELSE IF ~fs.write THEN [base EXCEPT !.FilePath = filePath, !.err = "write"]
        ELSE [base EXCEPT !.FilePath = filePath,
                          !.file = [path |-> filePath,
                                    data |-> FileContent(variant, contentToSave)]]

\* a body with a 20-byte frame header inside: "ab", the frame TRAN_ACK "x", "cd"
EMMBody == <<97, 98>> \o Frame([cmd |-> EMM_COMMAND_TRAN_ACK, result |-> 0, body |-> TokX])
           \o <<99, 100>>

SaveBodies == { <<>>, <<104, 101, 108, 108, 111>>, EMMBody,
                TagBytes \o <<104, 101, 108, 108, 111>> }

SaveStatusLines == { s \in StatusLines : s.spaced /\ s.code \in {200, 404} }

SaveHeaderLists == { <<>> } \cup { <<f>> : f \in { g \in HeaderFields :
                                        g.key = ContentLengthKey /\ g.lead # <<>> } }

SavePackets == 2       \* the reads that returned bytes: 1..SavePackets

PurePayloads ==
    SaveBodies
    \cup { PayloadOf([kind |-> "built", status |-> s, headers |-> h, body |-> b]) :
             s \in SaveStatusLines, h \in SaveHeaderLists, b \in SaveBodies }

InitSave ==
    /\ SegIdle /\ DownloadIdle /\ TransferIdle /\ HandshakeIdle /\ CallersIdle
    /\ inFrames = <<>>
    /\ ClientIdle /\ ConnectIdle /\ CodecIdle /\ AESIdle /\ ChunkedIdle /\ HTTPIdle
    /\ NewIdle /\ EncIdle /\ LastIdle
    /\ svPc = "segmented"
    /\ svVariant \in {"client", "pkg"}
    /\ svOpts \in [DetectHTTP : BOOLEAN, SaveToFile : BOOLEAN, SaveDir : {"", "out"},
                   FileNamePrefix : {"download"}]
    /\ svPure \in PurePayloads
    /\ svPackets \in 1..SavePackets
    /\ svFs \in [mkdir : BOOLEAN, write : BOOLEAN]
    /\ svResult = [HTTPInfo |-> NoHTTPInfo, MD5Sum |-> MD5Hex(<<>>), FilePath |-> <<>>,
                   err |-> "none"]
    /\ svFile = NoFile

\* the HTTP detection block
DetectHTTP ==
    /\ svPc = "segmented"
    /\ LET info == ExtractHTTPInfo(svVariant, svPure, svPackets)
       IN  /\ svResult' = [svResult EXCEPT !.HTTPInfo = info]
           /\ svPc' = IF info.kind = "panic" THEN "panic" ELSE "detected"
    /\ UNCHANGED <<segVars, cliVars, dlVars, xfVars, hsVars, ccVars, ctVars, cdVars,
                   aesVars, chVars, httpVars, ncVars, encVars, lastVars, svVariant, svOpts,
                   svPure, svPackets,
                   svFs, svFile>>

\* the digest, the file and the return
Save ==
    /\ svPc = "detected"
    /\ LET contentToSave == ContentToSave(svResult.HTTPInfo, svPure, svOpts.DetectHTTP)
           r == SaveStep(svVariant, svOpts, svFs, contentToSave, MD5Hex(contentToSave))
       IN  /\ svResult' = [svResult EXCEPT !.MD5Sum = r.MD5Sum, !.FilePath = r.FilePath,
                                           !.err = r.err]
           /\ svFile' = r.file
    /\ svPc' = "returned"
    /\ UNCHANGED <<segVars, cliVars, dlVars, xfVars, hsVars, ccVars, ctVars, cdVars,
                   aesVars, chVars, httpVars, ncVars, encVars, lastVars, svVariant, svOpts,
                   svPure, svPackets,
                   svFs>>

NextSave == DetectHTTP \/ Save

SpecSave == InitSave /\ [][NextSave]_vars

\* C21: MD5Sum is computed over the content to save (the HTTP body when HTTP
\* was detected and DetectHTTP is enabled, otherwise the pure payload), and
\* when SaveToFile is set the bytes written to SaveDir/FileNamePrefix_MD5.bin
\* are exactly the bytes the digest was taken of: MD5Sum is the MD5 of the
\* saved file.
C21_DigestIsOfSavedFile ==
    (svPc = "returned" /\ svResult.err = "nil")
        => /\ svResult.MD5Sum =
                MD5Hex(IF svResult.HTTPInfo.kind = "info" /\ svOpts.DetectHTTP
                       THEN svResult.HTTPInfo.Body ELSE svPure)
           /\ svOpts.SaveToFile
                => /\ svFile.path = <<IF svOpts.SaveDir = "" THEN "." ELSE svOpts.SaveDir,
                                      svOpts.FileNamePrefix, svResult.MD5Sum>>
                   /\ svResult.FilePath = svFile.path
                   /\ MD5Hex(svFile.data) = svResult.MD5Sum

----------------------------------------------------------------------------
(* client: the read loop of SendTransferRequestWithDownload *)

FastReadTimeout == 5    \* readTimeout = 5 * time.Second
IdleReadCount == 3      \* if noDataCount >= 3

\* a variant that waits for one more empty read
IdleCompleteLate(count, since, threshold) ==
    count > IdleReadCount /\ since > threshold

\* if noDataCount >= 3 { if time.Since(lastReadTime) > noDataTimeThreshold {
IdleComplete(count, since, threshold) == count >= IdleReadCount /\ since > threshold

\* timeout: if time.Since(lastReadTime) > noDataTimeThreshold {
TimeoutComplete(since, threshold) == since > threshold

\* retries++ ; if retries <= options.MaxRetries {
RetryAllowed(r, maxRetries) == r <= maxRetries

\* if int64(len(totalRawResponse)) > options.MaxDownloadSize {
OverLimit(len, maxSize) == len > maxSize

\* respLen, cmd, _, _, _ := parseMessage(chunk, readBytes)
\* if cmd == proto.EMM_COMMAND_LINK_CLOSE {
ChunkLinkClose(chunk) ==
    parseMessage(chunk, Len(chunk)).cmd = EMM_COMMAND_LINK_CLOSE

\* retries used up: if len(totalRawResponse) > 0 { break } ; return nil, error
ExhaustedKeepsData(raw) == Len(raw) > 0

\* a variant that counts the reads, not their bytes
CountReceivedReads(received, readBytes) == received + 1

\* result.ReceivedBytes += readBytes
CountReceived(received, readBytes) == received + readBytes

\* time.Since(lastReadTime) is only ever compared with the threshold
Saturate(t, threshold) == IF t > threshold THEN threshold + 1 ELSE t

\* for !isComplete && retries <= options.MaxRetries {
LoopCondition(complete, r, maxRetries) == ~complete /\ r <= maxRetries

\* One pass through the body of `for !isComplete && retries <= options.MaxRetries`
\* after c.stream.Read returned rd = [n, chunk, err, dt] (dt: seconds the read
\* took). st = [raw, pure, packets, noData, since, retries, rto, received].
\* ctl says how the pass ends: "continue", "break", "error" (return nil, err),
\* "deadlock" (c.Connect called with c.mu held) or "panic" (the pkg build
\* slices chunk[RESPONSE_HEAD_LEN:] of a shorter chunk).
DLIteration(variant, st, rd, threshold, maxRetries, maxSize) ==
    LET raw1   == IF rd.n > 0 THEN st.raw \o rd.chunk ELSE st.raw
        \* pkg: body := chunk[proto.RESPONSE_HEAD_LEN:]
        pure1  == IF variant = "pkg" /\ rd.n >= RESPONSE_HEAD_LEN
                  THEN st.pure \o SliceFrom(rd.chunk, RESPONSE_HEAD_LEN) ELSE st.pure
        cnt1   == IF rd.n > 0 THEN 0 ELSE st.noData + 1
        since1 == IF rd.n > 0 THEN 0 ELSE Saturate(st.since + rd.dt, threshold)
        base   == [raw |-> raw1, pure |-> pure1,
                   packets |-> IF rd.n > 0 THEN st.packets + 1 ELSE st.packets,
                   noData |-> cnt1, since |-> since1,
                   retries |-> st.retries, rto |-> st.rto,
                   received |-> IF rd.n > 0 THEN CountReceived(st.received, rd.n)
                                ELSE st.received,
                   complete |-> FALSE, streamNil |-> FALSE,
                   ctl |-> "continue", end |-> "none", err |-> "none"]
        done(why) == [base EXCEPT !.complete = TRUE, !.ctl = "break", !.end = why]
    IN
    IF variant = "pkg" /\ rd.n > 0 /\ rd.n < RESPONSE_HEAD_LEN
    THEN [base EXCEPT !.ctl = "panic", !.end = "shortchunk"]
    ELSE IF rd.n > 0 /\ ChunkLinkClose(rd.chunk) THEN done("linkclose")
    ELSE IF rd.n = 0 /\ IdleComplete(cnt1, since1, threshold) THEN done("idle")
    ELSE IF rd.err # "nil" THEN
        IF rd.err = "eof" THEN done("eof")
        ELSE IF rd.err = "timeout" THEN
            IF TimeoutComplete(since1, threshold) THEN done("timeout") ELSE base
        ELSE IF rd.err = "apperr" THEN
            [base EXCEPT !.streamNil = TRUE, !.ctl = "deadlock"]
        ELSE LET r1 == st.retries + 1 IN
            IF RetryAllowed(r1, maxRetries)
            THEN [base EXCEPT !.streamNil = TRUE, !.retries = r1,
                              !.since = Saturate(since1 + r1, threshold)]
            ELSE IF ExhaustedKeepsData(raw1)
            THEN [base EXCEPT !.streamNil = TRUE, !.retries = r1,
                              !.ctl = "break", !.end = "exhausted"]
            ELSE [base EXCEPT !.streamNil = TRUE, !.retries = r1,
                              !.ctl = "error", !.end = "exhausted", !.err = "read"]
    ELSE IF OverLimit(Len(raw1), maxSize)
    THEN [base EXCEPT !.ctl = "error", !.end = "overflow", !.err = "overflow"]
    ELSE [base EXCEPT !.rto = FastReadTimeout]

\* result.PureData: the segmentation of the raw accumulator in the client
\* build, the accumulated chunk[RESPONSE_HEAD_LEN:] in the pkg build
PureData(variant, raw, pure) == IF variant = "pkg" THEN pure ELSE Segmentation(raw)

\* the *DownloadResult of a call that left the loop by break; saved is what
\* SaveStep returned
DLResult(raw, pure, received, sent, info, saved) ==
    [nil |-> FALSE, RawData |-> raw, PureData |-> pure,
     ReceivedBytes |-> received, SentBytes |-> sent, HTTPInfo |-> info,
     MD5Sum |-> saved.MD5Sum, FilePath |-> saved.FilePath]

\* the error returned next to the result: nil, or that of os.MkdirAll or
\* os.WriteFile
SaveError(err) == IF err = "write" THEN "writefile" ELSE err

----------------------------------------------------------------------------
(* SpecDL: one call of SendTransferRequestWithDownload against a transport *)

DLMaxFrames == 2          \* frames the peer sends in one exchange
MaxRetriesBound == 1      \* options.MaxRetries is 0..MaxRetriesBound
SmallDownloadSize == 30   \* the smaller options.MaxDownloadSize tried
ShortReadTimeout == 2     \* options.ReadTimeout tried, seconds
LongReadTimeout == 6
MaxEmptyReads == 4        \* consecutive empty reads the transport makes
ReadDelay == 3            \* seconds a read that is not a timeout may take

DLContent == TokX
DLFrameSet == [cmd : {EMM_COMMAND_TRAN_ACK, EMM_COMMAND_LINK_CLOSE}, result : {0},
               body : {TokX}]
\* a frame whose body is an HTTP response: status 200, Content-Length: 5, "hello"
DLHTTPFrame ==
    [cmd |-> EMM_COMMAND_TRAN_ACK, result |-> 0,
     body |-> PayloadOf([kind |-> "built",
                         status |-> CHOOSE l \in StatusLines : l.code = 200,
                         headers |-> << CHOOSE f \in HeaderFields :
                                            f.key = ContentLengthKey /\ f.lead # <<>> >>,
                         body |-> <<104, 101, 108, 108, 111>>])]

DLFrameSeqs == UNION { [1..k -> DLFrameSet] : k \in 1..DLMaxFrames } \cup { <<DLHTTPFrame>> }

\* the sizes in which the transport may cut the next chunk off the wire
ChunkSizes(w) ==
    { k \in {RESPONSE_HEAD_LEN - 1, RESPONSE_HEAD_LEN, RESPONSE_HEAD_LEN + 1, Len(w)} :
        1 <= k /\ k <= Len(w) }

\* what one c.stream.Read may return
ReadOutcomes(w, rto, emptyReads) ==
    { [n |-> k, chunk |-> Slice(w, 0, k), err |-> e, dt |-> 0] :
        k \in ChunkSizes(w), e \in {"nil", "eof", "other"} }
    \cup { [n |-> 0, chunk |-> <<>>, err |-> e, dt |-> d] :
        e \in {"nil", "eof", "other", "apperr"},
        d \in IF emptyReads < MaxEmptyReads THEN {0, ReadDelay} ELSE {} }
    \* the deadline error arrives at the deadline or later
    \cup { [n |-> 0, chunk |-> <<>>, err |-> "timeout", dt |-> d] : d \in {rto, rto + 1} }

\* the options of the call that are read after the loop, with the outcomes of
\* os.MkdirAll and os.WriteFile (mkdir, write: the call succeeds)
FinishOptions ==
    { [DetectHTTP |-> d, SaveToFile |-> FALSE, mkdir |-> TRUE, write |-> TRUE] :
        d \in BOOLEAN }
    \cup { [DetectHTTP |-> d, SaveToFile |-> TRUE, mkdir |-> f[1], write |-> f[2]] :
        d \in BOOLEAN, f \in { <<TRUE, TRUE>>, <<FALSE, TRUE>>, <<TRUE, FALSE>> } }

InitDL ==
    /\ SegIdle /\ TransferIdle /\ HandshakeIdle /\ CallersIdle
    /\ ConnectIdle /\ CodecIdle /\ AESIdle /\ ChunkedIdle /\ HTTPIdle
    /\ NewIdle /\ EncIdle /\ LastIdle
    /\ svPc = "idle" /\ svVariant \in {"client", "pkg"} /\ svOpts = <<>> /\ svPure = <<>>
    /\ svPackets = 0 /\ svFs = <<>> /\ svResult = <<>> /\ svFile = <<>>
    /\ inFrames \in DLFrameSeqs
    /\ conn \in {"nil", "open"}
    /\ stream \in IF conn = "nil" THEN {"nil"} ELSE {"nil", "open"}
    /\ connCtxErr \in IF conn = "nil" THEN {FALSE} ELSE BOOLEAN
    /\ mu = "free"
    /\ configMaxRetries = NewTransferClient(0).MaxRetries
    /\ dlPc = "start"
    /\ optMaxRetries \in -1..MaxRetriesBound
    /\ optMaxDownloadSize \in {SmallDownloadSize, 100 * SmallDownloadSize}
    /\ optReadTimeout \in {ShortReadTimeout, LongReadTimeout}
    /\ retries = 0 /\ noDataCount = 0 /\ isComplete = FALSE
    /\ sinceLastRead = 0 /\ readTimeout = 0
    /\ receivedBytes = 0 /\ sentBytes = 0
    /\ wire = Wire(inFrames)
    /\ lastRead = [n |-> 0, err |-> "none", start |-> 0]
    /\ dlEnd = "none" /\ dlErr = "none" /\ dlResult = NilResult
    /\ totalPureResponse = <<>> /\ packetCount = 0

\* the call up to and including the write of the request
DownloadStart ==
    /\ dlPc = "start"
    /\ mu = "free"
    /\ UNCHANGED <<segVars, conn, connCtxErr, configMaxRetries, optMaxRetries,
                   optMaxDownloadSize, optReadTimeout, retries, noDataCount,
                   isComplete, sinceLastRead, receivedBytes, wire, lastRead, dlEnd,
                   totalPureResponse, packetCount, xfVars, hsVars, ccVars, restVars>>
    /\ IF conn = "nil"
       THEN /\ dlPc' = "done" /\ dlErr' = "notconnected" /\ dlResult' = NilResult
            /\ mu' = "free"
            /\ UNCHANGED <<stream, readTimeout, sentBytes>>
       ELSE IF connCtxErr
       THEN \* c.Connect locks c.mu, which this call holds
            /\ dlPc' = "deadlock" /\ mu' = "held"
            /\ UNCHANGED <<stream, readTimeout, sentBytes, dlErr, dlResult>>
       ELSE \E opened \in BOOLEAN, written \in BOOLEAN :
            IF stream = "nil" /\ ~opened
            THEN /\ dlPc' = "done" /\ dlErr' = "openstream" /\ dlResult' = NilResult
                 /\ mu' = "free"
                 /\ UNCHANGED <<stream, readTimeout, sentBytes>>
            ELSE IF ~written
            THEN /\ stream' = "nil" /\ sentBytes' = 0
                 /\ dlPc' = "done" /\ dlErr' = "write" /\ dlResult' = NilResult
                 /\ mu' = "free"
                 /\ UNCHANGED readTimeout
            ELSE /\ stream' = "open"
                 /\ sentBytes' = Len(transferRequest(DLContent))
                 /\ readTimeout' = optReadTimeout
                 /\ dlPc' = IF LoopCondition(isComplete, retries, optMaxRetries)
                            THEN "read" ELSE "finish"
                 /\ mu' = "held"
                 /\ UNCHANGED <<dlErr, dlResult>>

\* one pass through the read loop
DownloadRead ==
    /\ dlPc = "read"
    /\ stream # "nil"
    /\ \E rd \in ReadOutcomes(wire, readTimeout, noDataCount) :
        LET it == DLIteration(svVariant,
                    [raw |-> totalRawResponse, pure |-> totalPureResponse,
                     packets |-> packetCount, noData |-> noDataCount,
                     since |-> sinceLastRead, retries |-> retries,
                     rto |-> readTimeout, received |-> receivedBytes],
                    rd, optReadTimeout, optMaxRetries, optMaxDownloadSize)
        IN  /\ wire' = SliceFrom(wire, rd.n)
            /\ lastRead' = [n |-> rd.n, err |-> rd.err, start |-> Len(totalRawResponse)]
            /\ totalRawResponse' = it.raw
            /\ totalPureResponse' = it.pure
            /\ packetCount' = it.packets
            /\ noDataCount' = it.noData
            /\ sinceLastRead' = it.since
            /\ retries' = it.retries
            /\ readTimeout' = it.rto
            /\ receivedBytes' = it.received
            /\ isComplete' = it.complete
            /\ stream' = IF it.streamNil THEN "nil" ELSE stream
            /\ dlEnd' = it.end
            /\ CASE it.ctl = "continue" ->
                      /\ dlPc' = IF LoopCondition(it.complete, it.retries, optMaxRetries)
                                 THEN "read" ELSE "finish"
                      /\ mu' = "held"
                      /\ UNCHANGED <<dlErr, dlResult>>
                 [] it.ctl = "deadlock" ->
                      /\ dlPc' = "deadlock" /\ mu' = "held"
                      /\ UNCHANGED <<dlErr, dlResult>>
                 [] it.ctl = "panic" ->
                      \* the deferred c.mu.Unlock() runs
                      /\ dlPc' = "panic" /\ mu' = "free"
                      /\ UNCHANGED <<dlErr, dlResult>>
                 [] it.ctl = "error" ->
                      /\ dlPc' = "done" /\ mu' = "free"
                      /\ dlErr' = it.err /\ dlResult' = NilResult
                 [] it.ctl = "break" ->
                      /\ dlPc' = "finish" /\ mu' = "held"
                      /\ UNCHANGED <<dlErr, dlResult>>
    /\ UNCHANGED <<remainingRaw, pureDataBuffer, segPc, segLast, inGarbage, inFrames,
                   conn, connCtxErr, configMaxRetries, optMaxRetries,
                   optMaxDownloadSize, optReadTimeout, sentBytes,
                   xfVars, hsVars, ccVars, restVars>>

\* the loop comes back to c.stream.SetReadDeadline with c.stream == nil
DownloadNilStream ==
    /\ dlPc = "read"
    /\ stream = "nil"
    /\ dlPc' = "panic"
    /\ dlEnd' = "nilstream"
    /\ mu' = "free"
    /\ UNCHANGED <<segVars, conn, connCtxErr, stream, configMaxRetries,
                   optMaxRetries, optMaxDownloadSize, optReadTimeout, retries,
                   noDataCount, isComplete, sinceLastRead, readTimeout, receivedBytes,
                   sentBytes, wire, lastRead, dlErr, dlResult, totalPureResponse,
                   packetCount, xfVars, hsVars, ccVars, restVars>>

\* the call from the end of the loop to its return: the pure payload, the
\* HTTP detection, the digest and the file. options.DetectHTTP and
\* options.SaveToFile are first read here, and the file system acts here.
DownloadFinish ==
    /\ dlPc = "finish"
    /\ \E pure \in { PureData(svVariant, totalRawResponse, totalPureResponse) } :
       \E info \in { ExtractHTTPInfo(svVariant, pure, packetCount) } :
         IF info.kind = "panic"
         THEN /\ dlPc' = "panic"
              /\ UNCHANGED <<dlErr, dlResult, svOpts, svFs, svFile>>
         \* md5.Sum of the content to save, for either value of DetectHTTP
         ELSE \E md5sum \in { [c \in { ContentToSave(info, pure, d) : d \in BOOLEAN }
                                  |-> MD5Hex(c)] } :
              \E o \in FinishOptions :
              \E contentToSave \in { ContentToSave(info, pure, o.DetectHTTP) } :
              \E saved \in { SaveStep(svVariant,
                                      [DetectHTTP |-> o.DetectHTTP,
                                       SaveToFile |-> o.SaveToFile, SaveDir |-> "out",
                                       FileNamePrefix |-> "download"],
                                      [mkdir |-> o.mkdir, write |-> o.write],
                                      contentToSave, md5sum[contentToSave]) } :
                /\ svOpts' = [DetectHTTP |-> o.DetectHTTP, SaveToFile |-> o.SaveToFile,
                              SaveDir |-> "out", FileNamePrefix |-> "download"]
                /\ svFs' = [mkdir |-> o.mkdir, write |-> o.write]
                /\ svFile' = saved.file
                /\ dlResult' = DLResult(totalRawResponse, pure, receivedBytes, sentBytes,
                                        info, saved)
                /\ dlErr' = SaveError(saved.err)
                /\ dlPc' = "done"
    /\ mu' = "free"
    /\ UNCHANGED <<segVars, conn, connCtxErr, stream, configMaxRetries,
                   optMaxRetries, optMaxDownloadSize, optReadTimeout, retries,
                   noDataCount, isComplete, sinceLastRead, readTimeout, receivedBytes,
                   sentBytes, wire, lastRead, dlEnd, totalPureResponse, packetCount,
                   xfVars, hsVars, ccVars, ctVars, cdVars, aesVars, chVars, httpVars,
                   ncVars, encVars, lastVars, svPc, svVariant, svPure, svPackets,
                   svResult>>

NextDL == DownloadStart \/ DownloadRead \/ DownloadNilStream \/ DownloadFinish

SpecDL == InitDL /\ [][NextDL]_vars

\* the zero-based offsets at which frame i of the exchange starts and ends on
\* the wire
FrameStart(i) == Len(Wire(SubSeq(inFrames, 1, i - 1)))
FrameEnd(i) == Len(Wire(SubSeq(inFrames, 1, i)))

\* the bytes the transport has delivered so far
Delivered == Slice(Wire(inFrames), 0, Len(Wire(inFrames)) - Len(wire))

\* C4: when the retry budget is exhausted the call returns the last transport
\* error, also when response bytes had been accumulated.
C4_ExhaustedReturnsError ==
    (dlPc = "done" /\ dlEnd = "exhausted") => dlErr = "read"

\* the error the call returns after the loop was left by break: nil unless
\* saving the file was asked for and failed
FinishError ==
    IF svOpts.SaveToFile /\ ~svFs.mkdir THEN "mkdir"
    ELSE IF svOpts.SaveToFile /\ ~svFs.write THEN "writefile"
    ELSE "nil"

\* C6: once bytes were delivered, an empty read (n = 0, no EOF, no failure)
\* that makes at least 3 consecutive empty reads, with more than ReadTimeout
\* elapsed since the last non-empty read, ends the loop and the call returns
\* the accumulated data (with no error but that of saving the file); every
\* non-empty read resets the consecutive-empty counter to 0.
C6_IdleCompletion ==
    /\ (dlPc \in {"read", "finish", "done", "deadlock"}
            /\ lastRead.err \in {"nil", "timeout"}
            /\ lastRead.n = 0 /\ Delivered # <<>>
            /\ noDataCount >= 3 /\ sinceLastRead > optReadTimeout)
        => (/\ dlPc \in {"finish", "done"} /\ isComplete
            /\ dlPc = "done" => (/\ dlErr = FinishError /\ ~dlResult.nil
                                 /\ dlResult.RawData = Delivered))
    /\ (dlPc \in {"read", "finish", "done", "deadlock", "panic"} /\ lastRead.n > 0)
        => noDataCount = 0

C6_Witness ==
    /\ dlPc = "done" /\ dlEnd = "idle" /\ lastRead.n = 0 /\ lastRead.err = "nil"
    /\ noDataCount = 3 /\ sinceLastRead > optReadTimeout
    /\ ~dlResult.nil /\ Len(dlResult.RawData) > 0

\* C7: once the bytes of a LINK_CLOSE frame have been received the exchange
\* reads no further, wherever the frame lies in the read chunks.
C7_LinkCloseAnywhereStops ==
    dlPc = "read" =>
        \A i \in 1..Len(inFrames) :
            inFrames[i].cmd = EMM_COMMAND_LINK_CLOSE
                => Len(totalRawResponse) < FrameEnd(i)

\* C8: no returned result has RawData longer than MaxDownloadSize, whichever
\* way the read loop ended.
C8_RawDataWithinLimit ==
    (dlPc = "done" /\ ~dlResult.nil)
        => Len(dlResult.RawData) <= optMaxDownloadSize

----------------------------------------------------------------------------
(* client: SendTransferRequestNoAES *)

\* a variant that also retries after the last pass
RetryAgainAlways(r, maxRetries) == r < maxRetries

\* if retry < maxRetries-1 { time.Sleep(retryDelay); continue }
RetryAgain(r, maxRetries) == r < maxRetries - 1

\* One pass through the body of `for retry := 0; retry < maxRetries; retry++`.
\* st = [stream, resp, sent, recv]; io = what the transport does in this pass:
\* [open, werr, wn, n, chunk, rerr] (open: OpenStreamSync succeeds; werr, rerr:
\* "nil" or the cause of the write / read error; wn, n: bytes written / read).
\* ctl says how the pass ends: "continue" (also falling off the end of the
\* body), "break", "error" (return nil, ..., err) or "deadlock" (c.Connect
\* called with c.mu held). kind classifies the pass for the record.
TransferAttempt(st, io, r, maxRetries) ==
    LET base == [stream |-> st.stream, resp |-> st.resp, sent |-> st.sent,
                 recv |-> st.recv, ctl |-> "continue", err |-> NoReturn,
                 kind |-> [op |-> "none", cause |-> "nil"]]
    IN
    IF st.stream = "nil" /\ ~io.open
    THEN \* OpenStreamSync failed
         IF RetryAgain(r, maxRetries)
         THEN [base EXCEPT !.kind = [op |-> "open", cause |-> "reset"]]
         ELSE [base EXCEPT !.kind = [op |-> "open", cause |-> "reset"],
                           !.ctl = "error", !.resp = <<>>,
                           !.err = [op |-> "open", cause |-> "reset"]]
    ELSE
    LET sent1 == st.sent + io.wn IN
    IF io.werr # "nil"
    THEN \* c.stream.Write failed: c.stream.Close(); c.stream = nil
         LET k == [op |-> "write", cause |-> io.werr] IN
         IF RetryAgain(r, maxRetries)
         THEN [base EXCEPT !.stream = "nil", !.sent = sent1, !.kind = k]
         ELSE [base EXCEPT !.stream = "nil", !.sent = sent1, !.kind = k,
                           !.ctl = "error", !.resp = <<>>, !.err = k]
    ELSE
    LET recv1 == IF io.n > 0 THEN st.recv + io.n ELSE st.recv
        b1    == [base EXCEPT !.stream = "open", !.sent = sent1, !.recv = recv1]
    IN
    IF io.rerr # "nil"
    THEN IF io.rerr = "eof" /\ io.n > 0
         THEN [b1 EXCEPT !.resp = st.resp \o io.chunk, !.ctl = "break",
                         !.kind = [op |-> "eofdata", cause |-> "eof"]]
         ELSE LET k == [op |-> "read", cause |-> io.rerr] IN
              IF io.rerr = "apperr"
              THEN [b1 EXCEPT !.stream = "nil", !.ctl = "deadlock", !.kind = k]
              ELSE IF RetryAgain(r, maxRetries)
              THEN [b1 EXCEPT !.stream = "nil", !.kind = k]
              ELSE IF Len(st.resp) = 0
              THEN [b1 EXCEPT !.stream = "nil", !.kind = k, !.ctl = "error",
                              !.resp = <<>>, !.err = k]
              ELSE [b1 EXCEPT !.stream = "nil", !.kind = k, !.ctl = "break"]
    ELSE IF io.n <= 0
    THEN IF RetryAgain(r, maxRetries)
         THEN [b1 EXCEPT !.kind = [op |-> "zero", cause |-> "nil"]]
         ELSE [b1 EXCEPT !.kind = [op |-> "zero", cause |-> "nil"], !.ctl = "break"]
    ELSE
    LET p     == parseMessage(io.chunk, io.n)
        resp1 == IF p.body # <<>> THEN st.resp \o p.body ELSE st.resp
        k     == [op |-> IF p.respLen > 0 THEN "parsed" ELSE "short", cause |-> "nil"]
    IN  IF p.cmd = EMM_COMMAND_LINK_CLOSE
        THEN [b1 EXCEPT !.resp = resp1, !.kind = k, !.ctl = "break"]
        ELSE IF p.respLen > 0 /\ p.respLen <= io.n
        THEN [b1 EXCEPT !.resp = resp1, !.kind = k, !.ctl = "break"]
        ELSE [b1 EXCEPT !.resp = resp1, !.kind = k]

----------------------------------------------------------------------------
(* SpecXfer: one call of SendTransferRequestNoAES against a transport *)

XfMaxFrames == 1       \* frames the peer answers with
XfMaxRetries == 3      \* c.config.MaxRetries is 1..XfMaxRetries

XfFrameSet == [cmd : {EMM_COMMAND_TRAN_ACK, EMM_COMMAND_LINK_CLOSE}, result : {0},
               body : {<<>>, TokX}]
XfFrameSeqs == UNION { [1..k -> XfFrameSet] : k \in 1..XfMaxFrames }

WriteCauses == {"reset", "timeout"}
ReadCauses == {"eof", "timeout", "reset", "apperr"}

\* what the transport may do in one pass: the stream opens or not, the write
\* fails or not, the read returns a chunk cut off the wire and/or an error
TransferOutcomes(w, request) ==
    { [open |-> FALSE, werr |-> "nil", wn |-> 0, n |-> 0, chunk |-> <<>>,
       rerr |-> "nil"] }
    \cup { [open |-> TRUE, werr |-> e, wn |-> 0, n |-> 0, chunk |-> <<>>,
            rerr |-> "nil"] : e \in WriteCauses }
    \cup { [open |-> TRUE, werr |-> "nil", wn |-> Len(request), n |-> k,
            chunk |-> Slice(w, 0, k), rerr |-> e] :
                k \in ChunkSizes(w), e \in {"nil", "eof", "reset"} }
    \cup { [open |-> TRUE, werr |-> "nil", wn |-> Len(request), n |-> 0,
            chunk |-> <<>>, rerr |-> e] : e \in {"nil"} \cup ReadCauses }

InitXfer ==
    /\ SegIdle /\ DownloadIdle /\ HandshakeIdle /\ CallersIdle /\ RestIdle
    /\ inFrames \in XfFrameSeqs
    /\ conn \in {"nil", "open"}
    /\ stream \in IF conn = "nil" THEN {"nil"} ELSE {"nil", "open"}
    /\ connCtxErr \in IF conn = "nil" THEN {FALSE} ELSE BOOLEAN
    /\ mu = "free"
    /\ configMaxRetries \in { NewTransferClient(m).MaxRetries : m \in 1..XfMaxRetries }
    /\ xfPc = "start"
    /\ retry = 0 /\ responseBytes = <<>>
    /\ xfWire = Wire(inFrames)
    /\ attempts = <<>>
    /\ xfSent = 0 /\ xfReceived = 0
    /\ xfErr = NoReturn /\ xfResp = <<>>

\* the call up to the loop
TransferStart ==
    /\ xfPc = "start"
    /\ mu = "free"
    /\ IF conn = "nil"
       THEN /\ xfPc' = "done" /\ mu' = "free"
            /\ xfErr' = [op |-> "notconnected", cause |-> "nil"]
       ELSE IF connCtxErr
       THEN \* c.Connect locks c.mu, which this call holds
            /\ xfPc' = "deadlock" /\ mu' = "held"
            /\ UNCHANGED xfErr
       ELSE /\ xfPc' = "loop" /\ mu' = "held"
            /\ UNCHANGED xfErr
    /\ UNCHANGED <<segVars, dlVars, hsVars, ccVars, restVars, conn, connCtxErr, stream,
                   configMaxRetries, retry, responseBytes, xfWire, attempts,
                   xfSent, xfReceived, xfResp>>

\* one pass through the loop, and the return when the pass leaves the loop
TransferPass ==
    /\ xfPc = "loop"
    /\ retry < configMaxRetries
    /\ \E io \in TransferOutcomes(
                    IF stream = "nil" THEN Wire(inFrames) ELSE xfWire,
                    transferRequest(TokX)) :
        LET fresh == stream = "nil" /\ io.open
            w  == IF fresh THEN Wire(inFrames) ELSE xfWire
            it == TransferAttempt(
                    [stream |-> stream, resp |-> responseBytes,
                     sent |-> xfSent, recv |-> xfReceived],
                    io, retry, configMaxRetries)
            last == it.ctl = "continue" /\ retry + 1 >= configMaxRetries
        IN  /\ xfWire' = IF it.kind.op \in {"open", "write"} THEN w
                         ELSE SliceFrom(w, io.n)
            /\ attempts' = Append(attempts,
                              [op |-> it.kind.op, cause |-> it.kind.cause,
                               start |-> Len(Wire(inFrames)) - Len(w), n |-> io.n])
            /\ stream' = it.stream
            /\ responseBytes' = it.resp
            /\ xfSent' = it.sent
            /\ xfReceived' = it.recv
            /\ retry' = IF it.ctl = "continue" THEN retry + 1 ELSE retry
            /\ CASE it.ctl = "deadlock" ->
                      /\ xfPc' = "deadlock" /\ mu' = "held"
                      /\ UNCHANGED <<xfErr, xfResp>>
                 [] it.ctl = "error" ->
                      /\ xfPc' = "done" /\ mu' = "free"
                      /\ xfErr' = it.err /\ xfResp' = <<>>
                 [] it.ctl = "break" \/ last ->
                      /\ xfPc' = "done" /\ mu' = "free"
                      /\ xfErr' = NoError /\ xfResp' = it.resp
                 [] OTHER ->
                      /\ xfPc' = "loop" /\ mu' = "held"
                      /\ UNCHANGED <<xfErr, xfResp>>
    /\ UNCHANGED <<segVars, dlVars, hsVars, ccVars, restVars, conn, connCtxErr,
                   configMaxRetries>>

NextXfer == TransferStart \/ TransferPass

SpecXfer == InitXfer /\ [][NextXfer]_vars

\* a pass in which the write or the read failed with a transient error
TransientFailure(a) ==
    \/ a.op = "write"
    \/ a.op = "read" /\ a.cause \in {"eof", "timeout", "reset"}

\* a pass in which the write succeeded and the read returned, with a nil error,
\* a chunk that begins with the whole of frame i of the peer's answer
ReadsWholeFrame(a, i) ==
    /\ a.op \in {"parsed", "short"}
    /\ a.start = FrameStart(i) /\ a.start + a.n >= FrameEnd(i)

\* C3: when the write or the read fails with a transient error in passes 1 and
\* 2 and pass 3 reads a whole frame, the call returns that frame's body with a
\* nil error if MaxRetries >= 3 (and the call does not return before pass 3);
\* with MaxRetries = 2 it returns the error of pass 2 and no response.
C3_ThirdAttemptSucceeds ==
    /\ \A i \in 1..Len(inFrames) :
        (/\ xfPc = "done" /\ configMaxRetries >= 3 /\ Len(attempts) = 3
         /\ TransientFailure(attempts[1]) /\ TransientFailure(attempts[2])
         /\ ReadsWholeFrame(attempts[3], i))
        => (xfErr = NoError /\ xfResp = inFrames[i].body)
    /\ (/\ xfPc = "done" /\ configMaxRetries >= 3 /\ Len(attempts) >= 2
        /\ TransientFailure(attempts[1]) /\ TransientFailure(attempts[2]))
        => Len(attempts) >= 3
    /\ (/\ xfPc = "done" /\ configMaxRetries = 2 /\ Len(attempts) = 2
        /\ TransientFailure(attempts[1]) /\ TransientFailure(attempts[2]))
        => (/\ xfErr = [op |-> attempts[2].op, cause |-> attempts[2].cause]
            /\ xfResp = <<>>)

C3_Witness ==
    /\ xfPc = "done" /\ configMaxRetries = 3 /\ Len(attempts) = 3
    /\ attempts[1].op = "write" /\ attempts[2].op = "read"
    /\ ReadsWholeFrame(attempts[3], 1)
    /\ xfErr = NoError /\ xfResp = TokX

\* C5: an exchange does not return a nil error with an empty response when its
\* last pass lost the data: the read failed, the read returned zero bytes, or
\* the bytes read were not a complete frame.
C5_NoSilentEmptySuccess ==
    (xfPc = "done" /\ xfErr = NoError /\ xfResp = <<>>)
        => (/\ Len(attempts) > 0
            /\ attempts[Len(attempts)].op \notin {"read", "zero", "short"})

----------------------------------------------------------------------------
(* client: the handshakes SendInitRequestNoAES and SendInitRequest *)

EMM_COMMAND_INIT == 2
DATA_PROTO_TYPE_JSON == 1
InitBufferLen == 1024      \* responseBuffer := make([]byte, 1024)

\* transferInit: the request header followed by the JSON of the InitInfo
transferInit(initInfoJSON) ==
    TransferHeaderMarshal(
        [Tag |-> HEAD_TAG, Version |-> PROTO_VERSION, Command |-> EMM_COMMAND_INIT,
         ProtoType |-> DATA_PROTO_TYPE_JSON, Option |-> 0, Reserve |-> 0,
         DataLen |-> Len(initInfoJSON), Crc |-> 0]) \o initInfoJSON

\* the read buffer after a Read of chunk into a fresh buffer of size bytes
ReadBuffer(chunk, size) ==
    [i \in 1..size |-> IF i <= Len(chunk) THEN chunk[i] ELSE 0]

\* utils.NewKey: the hex digest of "<requestid>:#EMM:<timestamp>:@2023*leagsoft"
\* (timestamp: the decimal digits of the time)
NewKey(requestid, timestamp) ==
    HexEncode(MD5Sum(requestid \o <<58, 35, 69, 77, 77, 58>> \o timestamp
                     \o <<58, 64, 50, 48, 50, 51, 42, 108, 101, 97, 103, 115, 111,
                          102, 116>>))

\* UdpResponseMessage.ParseBody: a.Body = make([]byte, bodylen);
\* copy(a.Body, buf[a.Head.Len():]); <<>> when it leaves Body nil
ParseBody(buf, bodylen) ==
    IF bodylen <= 0 \/ Len(buf) <= RESPONSE_HEAD_LEN THEN <<>>
    ELSE [i \in 1..bodylen |->
            IF RESPONSE_HEAD_LEN + i <= Len(buf) THEN buf[RESPONSE_HEAD_LEN + i] ELSE 0]

\* the beginning of the body ParseBody makes for a DataLen of 2^31 or more:
\* the bytes of message after the header, and zeros up to whole blocks and
\* one block more
HugeCipher(message) ==
    [i \in 1..(((Len(message) - RESPONSE_HEAD_LEN + BlockSize - 1) \div BlockSize
                + 1) * BlockSize) |->
        IF RESPONSE_HEAD_LEN + i <= Len(message) THEN message[RESPONSE_HEAD_LEN + i]
        ELSE 0]

\* the padding DecryptAES strips from a plaintext that ends with the block fill
FillPadding(fill) ==
    IF fill[BlockSize] > 0 /\ fill[BlockSize] <= BlockSize THEN fill[BlockSize]
    ELSE 0

\* DecryptAES of a body that begins with cipher and goes on with zeros
HugeDecrypt(cipher, dataLen, k) ==
    Call2(LAMBDA fill, data :
              [kind |-> "huge", data |-> data, fill |-> fill, len |-> dataLen,
               strip |-> FillPadding(fill)],
          BlockDecrypt(k, ZeroIV), CBCDecrypt(k, ZeroIV, cipher))

\* the body parseMessageByAES returns for a DataLen of 2^31 or more (a 64-bit
\* int): ParseBody makes DataLen bytes, the bytes of message after the header
\* and zeros after them, and DecryptAES decrypts them whole. All but the
\* beginning of the plaintext is copies of one block, the decryption of a
\* zero block after a zero block. [kind "huge", data, fill, len, strip]: the
\* body is data followed by copies of fill up to the DataLen bytes, which len
\* holds as ReadUint32 does, less the strip bytes of padding at its end.
HugeBody(message, dataLen, initAESKey) ==
    Call1(LAMBDA k : HugeDecrypt(HugeCipher(message), dataLen, k),
          CipherKey(initAESKey))

\* parseMessageByAES: the header at the start of message, no check of the tag
\* nor of the length (the length argument is not used), and the body of
\* DataLen bytes decrypted. body.kind is "nil" for a nil body, "ok" for a
\* decrypted one, "panic" when DecryptAES panics, and "huge" for the body of a
\* DataLen of 2^31 or more in whole blocks, which the program holds when it
\* has the memory for it.
parseMessageByAES(message, length, initAESKey) ==
    LET head == ResponseHeaderUnMarshal(Slice(message, 0, RESPONSE_HEAD_LEN))
        body == ParseBody(message, head.DataLen)
        dec  == DecryptAES(initAESKey, body)
        nil  == [kind |-> "nil", data |-> <<>>]
    IN  [respLen |-> RESPONSE_HEAD_LEN, cmd |-> head.Command,
         dataLen |-> head.DataLen, result |-> head.Result,
         body |-> IF head.DataLen < 0
                  THEN (IF Len(message) <= RESPONSE_HEAD_LEN THEN nil
                        ELSE IF head.DataLen % BlockSize # 0
                        THEN [kind |-> "panic", data |-> <<>>]
                        ELSE HugeBody(message, head.DataLen, initAESKey))
                  ELSE IF head.DataLen > 0 /\ Len(body) > 0
                  THEN (IF dec.kind = "error" THEN nil ELSE dec)
                  ELSE nil]

\* a variant that forgets to look at the result code
InitAckErrorNoResult(cmd, result) ==
    IF cmd # EMM_COMMAND_INIT_ACK THEN "command" ELSE "nil"

\* if cmd != proto.EMM_COMMAND_INIT_ACK { return error }
\* if result != proto.AUTH_STATUS_CODE_SUCCESS { return error }
InitAckError(cmd, result) ==
    IF cmd # EMM_COMMAND_INIT_ACK THEN "command"
    ELSE IF result # AUTH_STATUS_CODE_SUCCESS THEN "result"
    ELSE "nil"

\* SendInitRequestNoAES after the loop: if respLen == 0 { return error } ...
InitResult(p) ==
    IF p.respLen = 0 THEN "parse" ELSE InitAckError(p.cmd, p.result)

\* One pass through the body of the read loop of SendInitRequestNoAES.
\* io = [n, chunk, rerr, open, werr, wn]: what Read returned, and for the
\* reopening after an EOF whether OpenStreamSync and the second Write succeed.
\* ctl: "continue", "next" (fall off the end of the body), "break", "error".
InitAttempt(st, io, r, maxRetries) ==
    LET recv1 == IF io.n > 0 THEN st.recv + io.n ELSE st.recv
        base  == [sent |-> st.sent, recv |-> recv1, reopened |-> FALSE,
                  ctl |-> "continue", err |-> "none", parsed |-> ParseNone]
    IN
    IF io.rerr # "nil"
    THEN IF io.rerr = "eof" /\ RetryAgain(r, maxRetries) /\ io.open
         THEN [base EXCEPT !.reopened = TRUE, !.sent = st.sent + io.wn]
         ELSE IF RetryAgain(r, maxRetries) THEN base
         ELSE [base EXCEPT !.ctl = "error", !.err = "read"]
    ELSE IF io.n <= 0
    THEN IF RetryAgain(r, maxRetries) THEN base
         ELSE [base EXCEPT !.ctl = "error", !.err = "zero"]
    ELSE LET p == parseMessage(io.chunk, io.n) IN
         IF p.respLen > 0 THEN [base EXCEPT !.ctl = "break", !.parsed = p]
         ELSE [base EXCEPT !.ctl = "next"]

----------------------------------------------------------------------------
(* SpecInit: one handshake against a transport *)

HsMaxRetries == 2      \* c.config.MaxRetries is 1..HsMaxRetries

InitInfoJSON == <<123, 125>>
HsFrameSet == [cmd : {EMM_COMMAND_INIT_ACK, EMM_COMMAND_TRAN_ACK},
               result : {AUTH_STATUS_CODE_SUCCESS,
                         AUTH_STATUS_CODE_ERR_TENNEL_FORBIDDEN},
               \* no body, a short one, and one of a block and a byte
               body : {<<>>, TokX, Repeat(120, BlockSize + 1)}]

\* the sizes in which the transport may cut the handshake response
InitChunkSizes(w) ==
    { k \in {RESPONSE_HEAD_LEN \div 2 - 1, RESPONSE_HEAD_LEN \div 2,
             RESPONSE_HEAD_LEN, Len(w)} : 1 <= k /\ k <= Len(w) }

InitReadOutcomes(w, request) ==
    { [n |-> k, chunk |-> Slice(w, 0, k), rerr |-> e, open |-> FALSE,
       werr |-> "nil", wn |-> 0] :
            k \in InitChunkSizes(w) \cup {0}, e \in {"nil", "reset"} }
    \cup { [n |-> 0, chunk |-> <<>>, rerr |-> "eof", open |-> o,
            werr |-> e, wn |-> IF o /\ e = "nil" THEN Len(request) ELSE 0] :
            o \in BOOLEAN, e \in {"nil", "reset"} }

InitHandshake ==
    /\ SegIdle /\ DownloadIdle /\ TransferIdle /\ CallersIdle /\ RestIdle
    /\ inFrames \in [1..1 -> HsFrameSet]
    /\ conn \in {"nil", "open"}
    /\ stream \in IF conn = "nil" THEN {"nil"} ELSE {"nil", "open"}
    /\ connCtxErr = FALSE
    /\ mu = "free"
    /\ configMaxRetries \in { NewTransferClient(m).MaxRetries : m \in 1..HsMaxRetries }
    /\ hsPc = "start"
    /\ hsKind \in {"noaes", "aes"}
    /\ hsRetry = 0
    /\ hsWire = Wire(inFrames)
    /\ hsChunk = <<>>
    /\ hsSent = 0 /\ hsReceived = 0
    /\ hsReads = 0 /\ hsWrites = 0
    /\ hsErr = "none"

\* SendInitRequestNoAES up to the loop
InitNoAESStart ==
    /\ hsPc = "start" /\ hsKind = "noaes"
    /\ mu = "free"
    /\ IF conn = "nil" \/ stream = "nil"
       THEN /\ hsPc' = "done" /\ hsErr' = "notconnected" /\ mu' = "free"
            /\ UNCHANGED <<hsSent, hsWrites>>
       ELSE \E written \in BOOLEAN :
            /\ hsWrites' = hsWrites + 1
            /\ IF written
               THEN /\ hsSent' = Len(transferInit(InitInfoJSON))
                    /\ hsPc' = "read" /\ mu' = "held"
                    /\ UNCHANGED hsErr
               ELSE /\ hsSent' = 0
                    /\ hsPc' = "done" /\ hsErr' = "write" /\ mu' = "free"
    /\ UNCHANGED <<segVars, dlVars, xfVars, ccVars, restVars, conn, connCtxErr, stream,
                   configMaxRetries, hsKind, hsRetry, hsWire, hsChunk, hsReceived,
                   hsReads>>

\* one pass through the read loop of SendInitRequestNoAES, and the checks after
\* the loop when the pass leaves it
InitNoAESRead ==
    /\ hsPc = "read" /\ hsKind = "noaes"
    /\ hsRetry < configMaxRetries
    /\ \E io \in InitReadOutcomes(hsWire, transferInit(InitInfoJSON)) :
        LET it == InitAttempt([sent |-> hsSent, recv |-> hsReceived], io,
                              hsRetry, configMaxRetries)
            leave == it.ctl = "break"
                     \/ (it.ctl \in {"continue", "next"}
                         /\ hsRetry + 1 >= configMaxRetries)
        IN  /\ hsChunk' = io.chunk
            /\ hsWire' = IF it.reopened THEN Wire(inFrames)
                         ELSE SliceFrom(hsWire, io.n)
            /\ hsSent' = it.sent
            /\ hsReceived' = it.recv
            /\ hsReads' = hsReads + 1
            /\ hsWrites' = IF it.reopened THEN hsWrites + 1 ELSE hsWrites
            /\ hsRetry' = IF it.ctl \in {"continue", "next"} THEN hsRetry + 1
                          ELSE hsRetry
            /\ IF it.ctl = "error"
               THEN hsPc' = "done" /\ mu' = "free" /\ hsErr' = it.err
               ELSE IF leave
               THEN hsPc' = "done" /\ mu' = "free" /\ hsErr' = InitResult(it.parsed)
               ELSE hsPc' = "read" /\ mu' = "held" /\ UNCHANGED hsErr
    /\ UNCHANGED <<segVars, dlVars, xfVars, ccVars, restVars, conn, connCtxErr, stream,
                   configMaxRetries, hsKind>>

\* the key SendInitRequest makes of a request id and the time
HsAESKey == NewKey(<<117, 117, 105, 100>>, <<49, 55>>)

\* SendInitRequest up to the read: one write, no lock and no check of c.stream
InitAESWrite ==
    /\ hsPc = "start" /\ hsKind = "aes"
    /\ IF stream = "nil"
       THEN hsPc' = "panic" /\ UNCHANGED <<hsWrites, hsErr>>
       ELSE \E written \in BOOLEAN :
            /\ hsWrites' = hsWrites + 1
            /\ IF written THEN hsPc' = "read" /\ UNCHANGED hsErr
               ELSE hsPc' = "done" /\ hsErr' = "write"
    /\ UNCHANGED <<segVars, dlVars, xfVars, ccVars, restVars, cliVars, hsKind, hsRetry,
                   hsWire, hsChunk, hsSent, hsReceived, hsReads>>

\* the one read of SendInitRequest, which takes c.stream anew, and the checks
\* after it; parseMessageByAES decrypts the body the header declares
InitAESRead ==
    /\ hsPc = "read" /\ hsKind = "aes"
    /\ IF stream = "nil"
       THEN hsPc' = "panic" /\ UNCHANGED <<hsWire, hsChunk, hsReads, hsErr>>
       ELSE \E k \in InitChunkSizes(hsWire) \cup {0}, e \in {"nil", "reset", "eof"} :
            LET chunk == Slice(hsWire, 0, k)
                p == parseMessageByAES(ReadBuffer(chunk, InitBufferLen), k, HsAESKey)
            IN  /\ hsChunk' = chunk
                /\ hsWire' = SliceFrom(hsWire, k)
                /\ hsReads' = hsReads + 1
                /\ IF e # "nil" THEN hsPc' = "done" /\ hsErr' = "read"
                   ELSE IF p.body.kind = "panic"
                   THEN hsPc' = "panic" /\ UNCHANGED hsErr
                   ELSE \/ hsPc' = "done" /\ hsErr' = InitAckError(p.cmd, p.result)
                        \* no memory for the body: the runtime ends the program
                        \/ /\ p.body.kind = "huge"
                           /\ hsPc' = "oom" /\ UNCHANGED hsErr
    /\ UNCHANGED <<segVars, dlVars, xfVars, ccVars, restVars, cliVars, hsKind, hsRetry,
                   hsSent, hsReceived, hsWrites>>

NextInit == InitNoAESStart \/ InitNoAESRead \/ InitAESWrite \/ InitAESRead

SpecInit == InitHandshake /\ [][NextInit]_vars

\* C2: a handshake returns a nil error only if the bytes of the response it
\* read last carry Command = 3 (INIT_ACK) and Result = 8002; when it read the
\* whole response frame in one read and the frame carries another Command or
\* Result, it returns an error.
C2_SuccessNeedsInitAck ==
    /\ (hsPc = "done" /\ hsErr = "nil")
        => (/\ Len(hsChunk) >= 10
            /\ ReadUint16(hsChunk, 6) = 3
            /\ ReadUint16(hsChunk, 8) = 8002)
    /\ (/\ hsPc = "done" /\ hsChunk = Frame(inFrames[1])
        /\ (inFrames[1].cmd # 3 \/ inFrames[1].result # 8002))
        => hsErr \notin {"nil", "none"}

C2_Witness ==
    /\ hsPc = "done" /\ hsKind = "noaes" /\ hsErr = "nil"
    /\ hsChunk = Frame(inFrames[1])
    /\ inFrames[1].cmd = 3 /\ inFrames[1].result = 8002

----------------------------------------------------------------------------
(* SpecConc: goroutines calling the operations of one client concurrently *)

NumCallers == 2
Callers == 1..NumCallers

Operations == {"Connect", "Close", "SendInitRequest", "SendInitRequestNoAES",
               "SendTransferRequest", "SendTransferRequestNoAES",
               "SendTransferRequestWithDownload"}

\* the operations that begin with c.mu.Lock(); defer c.mu.Unlock()
Locks(op) == op \notin {"SendInitRequest", "SendTransferRequest"}

ConcMaxRetries == 2         \* c.config.MaxRetries is 1..ConcMaxRetries
ConcDownloadRetries == 1    \* options.MaxRetries of the downloads

\* c.stream.Close() on a stream that is not nil
Closed(st) == IF st = "nil" THEN "nil" ELSE "closed"

\* One step of goroutine in operation op at pc, with retry r of maxRetries m,
\* on the pair c.conn (cn, its context ended: ce) and c.stream (st): the set
\* of [conn, ctxErr, stream, pc, retry] the step may leave. A step is one use
\* of c.conn or c.stream, or one call that waits for the network. pc "exit":
\* the operation returns; "blocked": it calls c.Connect with c.mu held;
\* "panic": it uses a nil c.stream, DecryptAES panics, or the download slices
\* past the end of what it holds (the pkg build's chunk[RESPONSE_HEAD_LEN:] on
\* a chunk shorter than a header, parseChunkedBody on a negative chunk size).
StepOutcomes(op, pc, r, m, cn, ce, st) ==
    LET to(pc2) == [conn |-> cn, ctxErr |-> ce, stream |-> st, pc |-> pc2, retry |-> r]
        with(st2, pc2) == [to(pc2) EXCEPT !.stream = st2]
        \* the next pass of a loop "for retry := 0; retry < maxRetries; retry++"
        \* whose body was left at a point where retry < maxRetries-1 decides
        \* between sleep-and-continue and return
        again(st2, top) == IF r < m - 1
                           THEN [with(st2, top) EXCEPT !.retry = r + 1]
                           ELSE with(st2, "exit")
    IN
    CASE op = "Connect" /\ pc = "run" ->
            \* the checks and the dials: an error returns
            { to("exit"), to("replace") }
      [] op = "Connect" /\ pc = "replace" ->
            \* c.conn.CloseWithError, c.stream.Close, c.conn = conn
            { [conn |-> "open", ctxErr |-> FALSE, stream |-> Closed(st),
               pc |-> "open", retry |-> r] }
      [] op = "Connect" /\ pc = "open" ->
            \* conn.OpenStreamSync: conn.CloseWithError, or c.stream = stream
            { [to("exit") EXCEPT !.ctxErr = TRUE], with("open", "exit") }
      [] op = "Close" /\ pc = "run" ->
            { with(Closed(st), "conn") }
      [] op = "Close" /\ pc = "conn" ->
            { [to("exit") EXCEPT !.ctxErr = (cn # "nil")] }
      [] op \in {"SendInitRequest", "SendTransferRequest"} /\ pc = "run" ->
            \* c.stream.Write
            IF st = "nil" THEN { to("panic") }
            ELSE IF st = "closed" THEN { to("exit") }
            ELSE { to("exit"), to("read") }
      [] op = "SendInitRequest" /\ pc = "read" ->
            \* c.stream.Read, parseMessageByAES
            IF st = "nil" THEN { to("panic") } ELSE { to("exit"), to("panic") }
      [] op = "SendTransferRequest" /\ pc = "read" ->
            IF st = "nil" THEN { to("panic") }
            ELSE { to("exit"), to("read"), to("panic") }
      [] op = "SendInitRequestNoAES" /\ pc = "run" ->
            \* the check of c.conn and c.stream, and c.stream.Write
            IF cn = "nil" \/ st = "nil" \/ st = "closed" THEN { to("exit") }
            ELSE { to("exit"), to("read") }
      [] op = "SendInitRequestNoAES" /\ pc = "read" ->
            \* c.stream.Read: a frame, an EOF with a retry left, or another
            \* failure
            IF r >= m THEN { to("exit") }
            ELSE IF st = "nil" THEN { to("panic") }
            ELSE { to("exit"), again(st, "read") }
                 \cup (IF r < m - 1 THEN { to("reopen") } ELSE {})
      [] op = "SendInitRequestNoAES" /\ pc = "reopen" ->
            \* c.conn.OpenStreamSync; c.stream.Close(); c.stream = newStream;
            \* c.stream.Write
            { again(st, "read"), again("open", "read") }
      [] op = "SendTransferRequestNoAES" /\ pc = "run" ->
            IF cn = "nil" THEN { to("exit") }
            ELSE IF ce THEN { to("blocked") }
            ELSE { to("top") }
      [] op = "SendTransferRequestNoAES" /\ pc = "top" ->
            \* if c.stream == nil { c.conn.OpenStreamSync; c.stream = stream }
            IF r >= m THEN { to("exit") }
            ELSE IF st = "nil" THEN { again(st, "top"), with("open", "write") }
            ELSE { to("write") }
      [] op = "SendTransferRequestNoAES" /\ pc = "write" ->
            \* c.stream.Write; on an error c.stream.Close(), c.stream = nil
            IF st = "nil" THEN { to("panic") }
            ELSE { again("nil", "top") }
                 \cup (IF st = "open" THEN { to("read") } ELSE {})
      [] op = "SendTransferRequestNoAES" /\ pc = "read" ->
            \* c.stream.Read: the response or a part of it; on an error
            \* c.stream.Close(), c.stream = nil, and for an application error
            \* c.Connect
            IF st = "nil" THEN { to("panic") }
            ELSE { to("exit"), again(st, "top"), again("nil", "top"),
                   with("nil", "blocked") }
      [] op = "SendTransferRequestWithDownload" /\ pc = "run" ->
            IF cn = "nil" THEN { to("exit") }
            ELSE IF ce THEN { to("blocked") }
            ELSE IF st = "nil" THEN { to("openstream") }
            ELSE { to("write") }
      [] op = "SendTransferRequestWithDownload" /\ pc = "openstream" ->
            \* c.conn.OpenStreamSync; c.stream = stream
            { to("exit"), with("open", "write") }
      [] op = "SendTransferRequestWithDownload" /\ pc = "write" ->
            \* c.stream.Write; on an error c.stream.Close(), c.stream = nil
            IF st = "nil" THEN { to("panic") }
            ELSE { with("nil", "exit") }
                 \cup (IF st = "open" THEN { to("read") } ELSE {})
      [] op = "SendTransferRequestWithDownload" /\ pc = "read" ->
            \* for !isComplete && retries <= options.MaxRetries:
            \* c.stream.SetReadDeadline, c.stream.Read; on an error that ends
            \* no download c.stream.Close(), c.stream = nil, c.Connect for an
            \* application error, retries++; a short chunk or, after the loop,
            \* the chunked body of the bytes received can panic
            IF r > ConcDownloadRetries THEN { to("exit"), to("panic") }
            ELSE IF st = "nil" THEN { to("panic") }
            ELSE { to("exit"), to("read"), to("panic"), with("nil", "blocked"),
                   IF r + 1 <= ConcDownloadRetries
                   THEN [with("nil", "read") EXCEPT !.retry = r + 1]
                   ELSE with("nil", "exit") }

InitConc ==
    /\ SegIdle /\ DownloadIdle /\ TransferIdle /\ HandshakeIdle /\ RestIdle
    /\ inFrames = <<>>
    /\ conn = NewTransferClient(0).conn /\ connCtxErr = FALSE
    /\ stream = NewTransferClient(0).stream /\ mu = "free"
    /\ configMaxRetries \in { NewTransferClient(k).MaxRetries : k \in 1..ConcMaxRetries }
    /\ callOp = [g \in Callers |-> "none"]
    /\ callPc = [g \in Callers |-> "idle"]
    /\ callRetry = [g \in Callers |-> 0]

\* an unrecovered panic in any goroutine ends the program
NoPanic == \A g \in Callers : callPc[g] # "panic"

\* goroutine g calls op: it waits for c.mu if op locks, else runs at once
Call(g, op) ==
    /\ NoPanic /\ callPc[g] = "idle"
    /\ callOp' = [callOp EXCEPT ![g] = op]
    /\ callPc' = [callPc EXCEPT ![g] = IF Locks(op) THEN "wait" ELSE "run"]
    /\ callRetry' = [callRetry EXCEPT ![g] = 0]
    /\ UNCHANGED <<segVars, dlVars, xfVars, hsVars, restVars, cliVars>>

\* c.mu.Lock() returns
Lock(g) ==
    /\ NoPanic /\ callPc[g] = "wait"
    /\ mu = "free"
    /\ mu' = "held"
    /\ callPc' = [callPc EXCEPT ![g] = "run"]
    /\ UNCHANGED <<segVars, dlVars, xfVars, hsVars, restVars, conn, connCtxErr, stream,
                   configMaxRetries, callOp, callRetry>>

\* goroutine g takes the next step of its operation
Step(g) ==
    /\ NoPanic /\ callPc[g] \notin {"idle", "wait", "exit", "blocked", "panic"}
    /\ \E o \in StepOutcomes(callOp[g], callPc[g], callRetry[g], configMaxRetries,
                             conn, connCtxErr, stream) :
        /\ conn' = o.conn /\ connCtxErr' = o.ctxErr /\ stream' = o.stream
        /\ callPc' = [callPc EXCEPT ![g] = o.pc]
        /\ callRetry' = [callRetry EXCEPT ![g] = o.retry]
    /\ UNCHANGED <<segVars, dlVars, xfVars, hsVars, restVars, mu, configMaxRetries, callOp>>

\* the operation returns; the deferred c.mu.Unlock() runs
Return(g) ==
    /\ NoPanic /\ callPc[g] = "exit"
    /\ mu' = IF Locks(callOp[g]) THEN "free" ELSE mu
    /\ callPc' = [callPc EXCEPT ![g] = "idle"]
    /\ callOp' = [callOp EXCEPT ![g] = "none"]
    /\ UNCHANGED <<segVars, dlVars, xfVars, hsVars, restVars, conn, connCtxErr, stream,
                   configMaxRetries, callRetry>>

NextConc ==
    \E g \in Callers :
        \/ \E op \in Operations : Call(g, op)
        \/ Lock(g)
        \/ Step(g)
        \/ Return(g)

SpecConc == InitConc /\ [][NextConc]_vars

\* the goroutines inside the body of an operation
Executing == { g \in DOMAIN callPc : callPc[g] \notin {"idle", "wait", "panic"} }

\* C1: at most one of Connect, the handshakes, the exchanges and Close is
\* executing on the client at any time.
C1_MutualExclusion == Cardinality(Executing) <= 1

----------------------------------------------------------------------------
(* SpecDL: the pure payload of a download against the stream received *)

\* the bodies of the frames that precede the first LINK_CLOSE frame
RECURSIVE BodiesBeforeClose(_)
BodiesBeforeClose(fs) ==
    IF fs = <<>> \/ Head(fs).cmd = EMM_COMMAND_LINK_CLOSE THEN <<>>
    ELSE Head(fs).body \o BodiesBeforeClose(Tail(fs))

\* C11: however the transport cut the stream into read chunks, a download that
\* received the whole stream (or stopped at a LINK_CLOSE frame) returns as
\* PureData the bodies of the frames received, without their headers.
C11_PureDataIsFrameBodies ==
    /\ dlEnd # "shortchunk"
    /\ (/\ dlPc = "done" /\ ~dlResult.nil
        /\ (wire = <<>> \/ dlEnd = "linkclose"))
            => dlResult.PureData = BodiesBeforeClose(inFrames)

----------------------------------------------------------------------------
(* SpecSeg: the segmentation pass is total *)

\* the bytes of raw in which the scan looks for the tag: offsets 1 up to the
\* first 100 bytes
ScanWindow(raw) ==
    Slice(raw, 1, IF Len(raw) < MaxScanLen THEN Len(raw) ELSE MaxScanLen)

\* raw does not begin with a message the pass accepts, holds no "HTTP/" and
\* has no tag in the scan window
NoMarker(raw) ==
    /\ ReadUint32(raw, 0) # HEAD_TAG \/ ReadUint16(raw, 6) = 0
         \/ Uint32Exceeds(ReadUint32(raw, 12), Len(raw) - RESPONSE_HEAD_LEN)
    /\ BytesIndex(raw, HttpPrefix) = -1
    /\ BytesIndex(ScanWindow(raw), TagBytes) = -1

\* C12: the pass does not discard data. Stated for an accumulator that holds
\* complete transfer frames and nothing else, where no resynchronisation and
\* no "HTTP/" cut applies: the pure payload holds at least as many bytes as
\* the bodies of the frames received.
C12_NoByteDiscarded ==
    (segPc = "done" /\ inGarbage = <<>> /\ AllTransfer(inFrames))
        => Len(pureDataBuffer) >= Len(BodiesOf(inFrames))

----------------------------------------------------------------------------
(* SpecConnect: Connect and Close on the connection/stream pair *)

MaxDials == 6          \* connections dialed in one run

\* the two clients of the repository: the one whose operations lock c.mu, and
\* the older one, whose struct has no mutex
ConnectVariants == {"locked", "lockfree"}

\* if c.conn != nil { c.conn.CloseWithError(...) } ; if c.stream != nil {
\* c.stream.Close() }: the closed objects after closing old (0: nil)
CloseOld(closed, old) == IF old # 0 THEN closed \cup {old} ELSE closed

\* Connect of the client with c.mu, the whole call. pre: the checks before
\* the dial succeed; dial: one of the dial attempts succeeds; open:
\* OpenStreamSync succeeds. The result is the pair, the closed objects, the
\* counters and the returned error. It closes the connection and the stream
\* the client held before it stores the new connection.
ConnectLocked(c, pre, dial, open) ==
    IF ~pre THEN [c EXCEPT !.err = "precheck"]
    ELSE IF ~dial THEN [c EXCEPT !.err = "dial"]
    ELSE LET new == c.dialed + 1
             c1  == [c EXCEPT !.dialed = new,
                              !.closedConns = CloseOld(c.closedConns, c.conn),
                              !.closedStreams = CloseOld(c.closedStreams, c.stream.id),
                              !.conn = new]
         IN  IF ~open
             THEN [c1 EXCEPT !.closedConns = c1.closedConns \cup {new},
                             !.err = "openstream"]
             ELSE [c1 EXCEPT !.opened = c.opened + 1,
                             !.stream = [id |-> c.opened + 1, on |-> new],
                             !.err = "nil"]

\* Close, the whole call: closes the stream and the connection it holds
CloseCall(c) ==
    [c EXCEPT !.closedStreams = CloseOld(c.closedStreams, c.stream.id),
              !.closedConns = CloseOld(c.closedConns, c.conn),
              !.err = "nil"]

ClientPair ==
    [conn |-> connObj, stream |-> streamObj, closedConns |-> closedConns,
     closedStreams |-> closedStreams, dialed |-> dialed, opened |-> streamsOpened,
     gone |-> peerClosed, err |-> "none"]

(* The client without mutex. Nothing orders the calls of two goroutines, so
   each call is a sequence of steps: a step is one wait for the network, or
   the statements that follow it up to the next wait, and the steps of the
   calls in progress interleave. *)

LockFreeRetries == 3        \* maxRetries := 3
MaxLockFreeDials == 2       \* connections dialed in one run of this client
MaxLockFreeStreams == 2     \* streams opened in one run of this client

LockFreeOps == {"Connect", "Close", "SendInitRequestNoAES", "SendTransferRequestNoAES"}

\* the first step of each operation
FirstPc(op) ==
    CASE op = "Connect" -> "dial"
      [] op = "Close" -> "close"
      [] op = "SendInitRequestNoAES" -> "icheck"
      [] op = "SendTransferRequestNoAES" -> "tcheck"

\* connection cn can still open streams and carry data
Alive(c, cn) == cn # 0 /\ cn \notin (c.closedConns \cup c.gone)

\* c.stream can still carry data
Usable(c) == c.stream.id \notin c.closedStreams /\ Alive(c, c.stream.on)

\* c.stream.Close(); c.stream = nil
DropStream(c) ==
    [c EXCEPT !.closedStreams = CloseOld(c.closedStreams, c.stream.id),
              !.stream = NilStream]

\* One step of the call k on the client c: the set of [k, c, last], the call
\* and the client after the step and, when the step ends a Connect or a
\* Close, what it returned (else NoLast). pc "panic": a method called on a
\* nil c.stream.
LockFreeStep(k, c) ==
    LET at(c2, pc2) == [k |-> [k EXCEPT !.pc = pc2], c |-> c2, last |-> NoLast]
        return(c2) == [k |-> IdleCall, c |-> c2, last |-> NoLast]
        \* the end of a pass of "for retry := 0; retry < maxRetries; retry++"
        \* where retry < maxRetries-1 decides between continue and return
        again(c2, top) ==
            IF k.retry < LockFreeRetries - 1
            THEN [k |-> [k EXCEPT !.pc = top, !.retry = k.retry + 1,
                                  !.conn = 0, !.strm = NilStream],
                  c |-> c2, last |-> NoLast]
            ELSE return(c2)
        \* c.Connect is entered, to return to ret
        enterConnect(c2, ret) ==
            [k |-> [k EXCEPT !.pc = "dial", !.ret = ret, !.prevConn = c2.conn,
                             !.prevStream = c2.stream.id],
             c |-> c2, last |-> NoLast]
        \* Connect returns err: to the caller of the client, or into the
        \* exchange that called it (which returns the error before its loop
        \* and drops it inside the loop)
        connectReturns(c2, err) ==
            LET last == [op |-> "Connect", err |-> err, prevConn |-> k.prevConn,
                         prevStream |-> k.prevStream]
                k0   == [k EXCEPT !.conn = 0, !.strm = NilStream, !.ret = "return",
                                  !.prevConn = 0, !.prevStream = 0]
            IN  IF k.ret = "return" \/ (k.ret = "top" /\ err # "nil")
                THEN [k |-> IdleCall, c |-> c2, last |-> last]
                ELSE IF k.ret = "top"
                THEN [k |-> [k0 EXCEPT !.pc = "top"], c |-> c2, last |-> last]
                ELSE IF k.retry < LockFreeRetries - 1
                THEN [k |-> [k0 EXCEPT !.pc = "top", !.retry = k.retry + 1],
                      c |-> c2, last |-> last]
                ELSE [k |-> IdleCall, c |-> c2, last |-> last]
        \* a stream opened on connection cn
        opened(cn) == [k |-> [k EXCEPT !.strm = [id |-> c.opened + 1, on |-> cn]],
                       c |-> [c EXCEPT !.opened = c.opened + 1], last |-> NoLast]
        canOpen(cn) == Alive(c, cn) /\ c.opened < MaxLockFreeStreams
    IN
    CASE k.pc = "dial" ->
            \* Connect: the address and connectivity checks and the dials
            { connectReturns(c, "precheck"), connectReturns(c, "dial") }
            \cup (IF c.dialed < MaxLockFreeDials
                  THEN { [k |-> [k EXCEPT !.pc = "setconn", !.conn = c.dialed + 1],
                          c |-> [c EXCEPT !.dialed = c.dialed + 1], last |-> NoLast] }
                  ELSE {})
      [] k.pc = "setconn" ->
            \* c.conn = conn
            { at([c EXCEPT !.conn = k.conn], "open") }
      [] k.pc = "open" ->
            \* conn.OpenStreamSync(ctx): on an error conn.CloseWithError and
            \* the error is returned
            { connectReturns([c EXCEPT !.closedConns = c.closedConns \cup {k.conn}],
                             "openstream") }
            \cup (IF canOpen(k.conn)
                  THEN { [opened(k.conn) EXCEPT !.k.pc = "setstream"] } ELSE {})
      [] k.pc = "setstream" ->
            \* c.stream = stream; return nil
            { connectReturns([c EXCEPT !.stream = k.strm], "nil") }
      [] k.pc = "close" ->
            \* Close: if c.stream != nil { c.stream.Close() }
            { at([c EXCEPT !.closedStreams = CloseOld(c.closedStreams, c.stream.id)],
                 "closeconn") }
      [] k.pc = "closeconn" ->
            \* if c.conn != nil { c.conn.CloseWithError(...) }; return nil
            { [k |-> IdleCall,
               c |-> [c EXCEPT !.closedConns = CloseOld(c.closedConns, c.conn)],
               last |-> [op |-> "Close", err |-> "nil", prevConn |-> k.prevConn,
                         prevStream |-> k.prevStream]] }
      [] k.pc = "icheck" ->
            \* SendInitRequestNoAES: if c.conn == nil || c.stream == nil
            IF c.conn = 0 \/ c.stream.id = 0 THEN { return(c) }
            ELSE { at(c, "iwrite") }
      [] k.pc = "iwrite" ->
            \* c.stream.Write(initBytes), c.stream.SetReadDeadline
            IF c.stream.id = 0 THEN { at(c, "panic") }
            ELSE { return(c) } \cup (IF Usable(c) THEN { at(c, "iread") } ELSE {})
      [] k.pc = "iread" ->
            \* c.stream.SetReadDeadline, c.stream.Read: a response, an EOF
            \* with a pass left, or another failure
            IF c.stream.id = 0 THEN { at(c, "panic") }
            ELSE { IF k.retry < LockFreeRetries - 1
                   THEN [at(c, "iread") EXCEPT !.k.retry = k.retry + 1]
                   ELSE at(c, "ireturn") }
                 \cup (IF Usable(c) THEN { at(c, "ireturn") } ELSE {})
                 \cup (IF k.retry < LockFreeRetries - 1 THEN { at(c, "ireopen") } ELSE {})
      [] k.pc = "ireopen" ->
            \* newStream, streamErr := c.conn.OpenStreamSync(...)
            { [at(c, "iread") EXCEPT !.k.retry = k.retry + 1] }
            \cup (IF canOpen(c.conn)
                  THEN { [opened(c.conn) EXCEPT !.k.pc = "ireplace"] } ELSE {})
      [] k.pc = "ireplace" ->
            \* c.stream.Close(); c.stream = newStream; c.stream.Write; continue
            IF c.stream.id = 0 THEN { at(c, "panic") }
            ELSE { [k |-> [k EXCEPT !.pc = "iread", !.retry = k.retry + 1,
                                    !.strm = NilStream],
                    c |-> [c EXCEPT !.closedStreams = c.closedStreams \cup {c.stream.id},
                                    !.stream = k.strm],
                    last |-> NoLast] }
      [] k.pc = "ireturn" ->
            \* the deferred c.stream.SetReadDeadline(time.Time{})
            IF c.stream.id = 0 THEN { at(c, "panic") } ELSE { return(c) }
      [] k.pc = "tcheck" ->
            \* SendTransferRequestNoAES: if c.conn == nil; if
            \* c.conn.Context().Err() != nil { c.Connect(...) }
            IF c.conn = 0 THEN { return(c) }
            ELSE IF ~Alive(c, c.conn) THEN { enterConnect(c, "top") }
            ELSE { at(c, "top") }
      [] k.pc = "top" ->
            \* if c.stream == nil { stream, err := c.conn.OpenStreamSync(...) }
            IF c.stream.id # 0 THEN { at(c, "send") }
            ELSE { again(c, "top") }
                 \cup (IF canOpen(c.conn)
                       THEN { [opened(c.conn) EXCEPT !.k.pc = "store"] } ELSE {})
      [] k.pc = "store" ->
            \* c.stream = stream
            { [at([c EXCEPT !.stream = k.strm], "send") EXCEPT !.k.strm = NilStream] }
      [] k.pc = "send" ->
            \* c.stream.SetReadDeadline, c.stream.Write; on an error
            \* c.stream.Close(), c.stream = nil
            IF c.stream.id = 0 THEN { at(c, "panic") }
            ELSE { again(DropStream(c), "top") }
                 \cup (IF Usable(c) THEN { at(c, "recv") } ELSE {})
      [] k.pc = "recv" ->
            \* c.stream.Read: the response; a part of it; an error, then
            \* c.stream.Close(), c.stream = nil and, for "Application error
            \* 0x0" (the peer has ended the connection), c.Connect
            IF c.stream.id = 0 THEN { at(c, "panic") }
            ELSE { again(DropStream(c), "top"),
                   enterConnect([DropStream(c) EXCEPT !.gone = c.gone \cup {c.stream.on}],
                                "retry") }
                 \cup (IF Usable(c) THEN { return(c), again(c, "top") } ELSE {})

InitConnect ==
    /\ SegIdle /\ DownloadIdle /\ TransferIdle /\ HandshakeIdle /\ CallersIdle
    /\ inFrames = <<>>
    /\ ClientIdle /\ CodecIdle /\ AESIdle /\ TailIdle
    /\ PairIdle /\ cnVariant \in ConnectVariants

\* the client's fields and the objects after a step
SetObjects(c) ==
    /\ connObj' = c.conn /\ streamObj' = c.stream
    /\ closedConns' = c.closedConns /\ closedStreams' = c.closedStreams
    /\ dialed' = c.dialed /\ streamsOpened' = c.opened
    /\ peerClosed' = c.gone
    /\ conn' = IF c.conn = 0 THEN "nil" ELSE "open"
    /\ connCtxErr' = (c.conn \in (c.closedConns \cup c.gone))
    /\ stream' = IF c.stream.id = 0 THEN "nil"
                 ELSE IF c.stream.id \in c.closedStreams THEN "closed" ELSE "open"
    /\ UNCHANGED cnVariant

SetPair(c, op) ==
    /\ SetObjects(c)
    /\ cnLast' = [op |-> op, err |-> c.err, prevConn |-> connObj,
                  prevStream |-> streamObj.id]
    /\ UNCHANGED cnCalls

\* Connect and Close of the client with c.mu: the lock is held from entry to
\* return, so each call is one step
Connect ==
    /\ cnVariant = "locked" /\ mu = "free" /\ dialed < MaxDials
    /\ \E pre \in BOOLEAN, dial \in BOOLEAN, open \in BOOLEAN :
        SetPair(ConnectLocked(ClientPair, pre, dial, open), "Connect")
    /\ UNCHANGED <<segVars, dlVars, xfVars, hsVars, ccVars, cdVars, aesVars, tailVars,
                   mu, configMaxRetries>>

Close ==
    /\ cnVariant = "locked" /\ mu = "free"
    /\ SetPair(CloseCall(ClientPair), "Close")
    /\ UNCHANGED <<segVars, dlVars, xfVars, hsVars, ccVars, cdVars, aesVars, tailVars,
                   mu, configMaxRetries>>

\* an unrecovered panic in any goroutine ends the program
LockFreeRunning ==
    cnVariant = "lockfree" /\ \A g \in CnCallers : cnCalls[g].pc # "panic"

\* a goroutine calls an operation of the lock-free client
LockFreeCall ==
    /\ LockFreeRunning
    /\ \E g \in CnCallers, op \in LockFreeOps :
        /\ cnCalls[g].op = "none"
        /\ cnCalls' = [cnCalls EXCEPT ![g] =
                          [IdleCall EXCEPT !.op = op, !.pc = FirstPc(op),
                                           !.prevConn = connObj,
                                           !.prevStream = streamObj.id]]
    /\ cnLast' = NoLast
    /\ UNCHANGED <<connObj, streamObj, closedConns, closedStreams, dialed,
                   streamsOpened, cnVariant, peerClosed, conn, connCtxErr, stream>>
    /\ UNCHANGED <<segVars, dlVars, xfVars, hsVars, ccVars, cdVars, aesVars, tailVars,
                   mu, configMaxRetries>>

\* a call in progress on the lock-free client takes its next step
LockFreeAdvance ==
    /\ LockFreeRunning
    /\ \E g \in CnCallers :
        /\ cnCalls[g].op # "none"
        /\ \E o \in LockFreeStep(cnCalls[g], ClientPair) :
            /\ SetObjects(o.c)
            /\ cnLast' = o.last
            /\ cnCalls' = [cnCalls EXCEPT ![g] = o.k]
    /\ UNCHANGED <<segVars, dlVars, xfVars, hsVars, ccVars, cdVars, aesVars, tailVars,
                   mu, configMaxRetries>>

NextConnect == Connect \/ Close \/ LockFreeCall \/ LockFreeAdvance

SpecConnect == InitConnect /\ [][NextConnect]_vars

\* C13: after a successful Connect on a client that held a connection and a
\* stream, the old connection and the old stream are closed and the client
\* holds the newly dialed connection, open, with an open stream opened on it.
C13_ConnectReplacesPair ==
    (cnLast.op = "Connect" /\ cnLast.err = "nil")
        => (/\ (cnLast.prevConn # 0 => cnLast.prevConn \in closedConns)
            /\ (cnLast.prevStream # 0 => cnLast.prevStream \in closedStreams)
            /\ connObj = dialed /\ connObj # cnLast.prevConn
            /\ connObj \notin closedConns
            /\ streamObj.on = connObj /\ streamObj.id # cnLast.prevStream
            /\ streamObj.id \notin closedStreams)

----------------------------------------------------------------------------
(* SpecCodec: the 20-byte headers, Marshal and UnMarshal, and the paths that
   decode a received buffer *)

\* TransferHeader.UnMarshal / ResponseHeader.UnMarshal read through a
\* bytes.Buffer and drop every read error: a read past the end yields zero
\* bytes, so a short buffer decodes as if it were padded with zeros
PadHeader(data) ==
    ReadBuffer(Slice(data, 0, Min({Len(data), RESPONSE_HEAD_LEN})), RESPONSE_HEAD_LEN)

TransferHeaderUnMarshal(data) ==
    LET d == PadHeader(data)
    IN  [ Tag       |-> ReadUint32(d, 0),
          Version   |-> ReadUint16(d, 4),
          Command   |-> ReadUint16(d, 6),
          ProtoType |-> d[9],
          Option    |-> d[10],
          Reserve   |-> ReadUint16(d, 10),
          DataLen   |-> ReadUint32(d, 12),
          Crc       |-> ReadUint32(d, 16) ]

\* the uint32 0xF0010203 = 4026597891, as held here: 0x00010203 - 2^28
HighBitLen == 66051 - 268435456

\* the headers given to Marshal: every field within its width
TransferHeaders ==
    [ Tag : {HEAD_TAG, 0, 2147483647}, Version : {PROTO_VERSION, 65535},
      Command : {EMM_COMMAND_TRAN, 258}, ProtoType : {PROTO_TYPE_HTTP, 255},
      Option : {0, 7}, Reserve : {0, 258}, DataLen : {0, 16909060, HighBitLen},
      Crc : {0, 2147483647} ]

ResponseHeaders ==
    [ Tag : {HEAD_TAG, 0, 2147483647}, Version : {PROTO_VERSION, 65535},
      Command : {EMM_COMMAND_TRAN_ACK, 258},
      Result : {AUTH_STATUS_CODE_SUCCESS, 65535},
      Option : {0, 7}, Reserve : {0, 255}, DataLen : {0, 16909060, HighBitLen},
      OriginLen : {0, 2147483647} ]

HeaderMarshal(kind, h) ==
    IF kind = "TransferHeader" THEN TransferHeaderMarshal(h)
    ELSE ResponseHeaderMarshal(h)

HeaderUnMarshal(kind, data) ==
    IF kind = "TransferHeader" THEN TransferHeaderUnMarshal(data)
    ELSE ResponseHeaderUnMarshal(PadHeader(data))

\* the paths that decode the header of a received buffer
DecodePaths == {"ResponseHeader.UnMarshal", "parseMessage", "parseMessageByAES"}

\* what a path hands to its caller for the n received bytes data: failed when
\* it reports the buffer as undecodable (an error, or parseMessage's all-zero
\* return), panic when it hands back nothing because DecryptAES panicked on
\* the body, and else the Command, Result and DataLen the caller goes on to
\* use (for a body of 2^31 bytes or more: when the program has the memory)
DecodeHeader(path, data) ==
    IF path = "ResponseHeader.UnMarshal"
    THEN LET h == ResponseHeaderUnMarshal(PadHeader(data))
         IN  \* return nil
             [failed |-> FALSE, panic |-> FALSE, Command |-> h.Command,
              Result |-> h.Result, DataLen |-> h.DataLen]
    ELSE IF path = "parseMessage"
    THEN LET r == parseMessage(data, Len(data))
         IN  [failed |-> r.respLen = 0, panic |-> FALSE, Command |-> r.cmd,
              Result |-> r.result, DataLen |-> r.dataLen]
    ELSE \* SendInitRequest: the 1024-byte response buffer, n ignored
         LET r == parseMessageByAES(ReadBuffer(data, InitBufferLen), Len(data),
                                    HsAESKey)
         IN  IF r.body.kind = "panic"
             THEN [failed |-> FALSE, panic |-> TRUE, Command |-> 0, Result |-> 0,
                   DataLen |-> 0]
             ELSE [failed |-> FALSE, panic |-> FALSE, Command |-> r.cmd,
                   Result |-> r.result, DataLen |-> r.dataLen]

\* an INIT_ACK header that declares a body of a block and a byte, and four
\* bytes of it
OddBodyBuffer ==
    ResponseHeaderMarshal([Tag |-> HEAD_TAG, Version |-> PROTO_VERSION,
                           Command |-> EMM_COMMAND_INIT_ACK,
                           Result |-> AUTH_STATUS_CODE_SUCCESS, Option |-> 0,
                           Reserve |-> 0, DataLen |-> BlockSize + 1,
                           OriginLen |-> 0]) \o <<97, 98, 99, 100>>

\* the received buffers: an INIT_ACK header with the right or a wrong tag, cut
\* at some length
RawHeaders ==
    { ResponseHeaderMarshal([Tag |-> t, Version |-> PROTO_VERSION,
                             Command |-> c, Result |-> r, Option |-> 0,
                             Reserve |-> 0, DataLen |-> 0, OriginLen |-> 0]) :
        t \in {HEAD_TAG, 0}, c \in {EMM_COMMAND_INIT_ACK, EMM_COMMAND_TRAN_ACK},
        r \in {AUTH_STATUS_CODE_SUCCESS, AUTH_STATUS_CODE_ERR_TENNEL_FORBIDDEN} }

RawBuffers ==
    { Slice(b, 0, k) : b \in RawHeaders,
                       k \in {0, 3, RESPONSE_HEAD_LEN \div 2,
                              RESPONSE_HEAD_LEN - 1, RESPONSE_HEAD_LEN} }
    \cup { OddBodyBuffer }

InitCodec ==
    /\ SegIdle /\ DownloadIdle /\ TransferIdle /\ HandshakeIdle /\ CallersIdle
    /\ inFrames = <<>>
    /\ ClientIdle /\ ConnectIdle /\ AESIdle /\ TailIdle
    /\ cdOut = <<>>
    /\ \/ /\ cdPc = "header" /\ cdBytes = <<>>
          /\ \/ cdKind = "TransferHeader" /\ cdHeader \in TransferHeaders
             \/ cdKind = "ResponseHeader" /\ cdHeader \in ResponseHeaders
       \/ /\ cdPc = "raw" /\ cdHeader = <<>>
          /\ cdKind \in DecodePaths
          /\ cdBytes \in RawBuffers

Marshal ==
    /\ cdPc = "header"
    /\ cdBytes' = HeaderMarshal(cdKind, cdHeader)
    /\ cdPc' = "marshalled"
    /\ UNCHANGED <<segVars, cliVars, dlVars, xfVars, hsVars, ccVars, ctVars, aesVars,
                   tailVars, cdKind, cdHeader, cdOut>>

UnMarshal ==
    /\ cdPc = "marshalled"
    /\ cdOut' = HeaderUnMarshal(cdKind, cdBytes)
    /\ cdPc' = "unmarshalled"
    /\ UNCHANGED <<segVars, cliVars, dlVars, xfVars, hsVars, ccVars, ctVars, aesVars,
                   tailVars, cdKind, cdHeader, cdBytes>>

Decode ==
    /\ cdPc = "raw"
    /\ cdOut' = DecodeHeader(cdKind, cdBytes)
    /\ cdPc' = "decoded"
    /\ UNCHANGED <<segVars, cliVars, dlVars, xfVars, hsVars, ccVars, ctVars, aesVars,
                   tailVars, cdKind, cdHeader, cdBytes>>

NextCodec == Marshal \/ UnMarshal \/ Decode

SpecCodec == InitCodec /\ [][NextCodec]_vars

\* the value of four bytes, most significant first; a value of 2^31 or more
\* as the model holds it, less 2^32
BigEndian32(b, i) ==
    (((b[i + 1] - (IF b[i + 1] >= 128 THEN 256 ELSE 0)) * 256 + b[i + 2]) * 256
        + b[i + 3]) * 256 + b[i + 4]

\* C14: Marshal always produces exactly 20 bytes, each field big-endian at its
\* offset, and UnMarshal of these bytes gives back the header, for both
\* TransferHeader and ResponseHeader.
C14_HeaderRoundTrip ==
    /\ cdPc \in {"marshalled", "unmarshalled"} =>
        /\ Len(cdBytes) = RESPONSE_HEAD_LEN
        /\ \A i \in 1..Len(cdBytes) : cdBytes[i] \in 0..255
        /\ BigEndian32(cdBytes, 0) = cdHeader.Tag
        /\ cdBytes[5] * 256 + cdBytes[6] = cdHeader.Version
        /\ cdBytes[7] * 256 + cdBytes[8] = cdHeader.Command
        /\ BigEndian32(cdBytes, 12) = cdHeader.DataLen
    /\ cdPc = "unmarshalled" => cdOut = cdHeader

C14_Witness ==
    /\ cdPc = "unmarshalled" /\ cdKind = "TransferHeader"
    /\ cdHeader.DataLen = 16909060 /\ cdHeader.Reserve = 258
    /\ cdOut = cdHeader
    /\ Slice(cdBytes, 12, 16) = <<1, 2, 3, 4>>

\* C15: a buffer shorter than 20 bytes, or whose tag is not the protocol tag,
\* is reported as undecodable by every decoding path.
C15_BadHeaderRejected ==
    (/\ cdPc = "decoded"
     /\ \/ Len(cdBytes) < RESPONSE_HEAD_LEN
        \/ ReadUint32(PadHeader(cdBytes), 0) # HEAD_TAG)
        => cdOut.failed

----------------------------------------------------------------------------
(* SpecAES: utils.EncryptAES and utils.DecryptAES (AES-CBC, zero IV) *)

MaxBlocks == 2         \* plaintexts and ciphertexts of up to MaxBlocks blocks

\* blocks that differ in their last byte: 0, a letter, and the values 1 and 16
\* and 17 around the padding test
LastBytes == {0, 1, 16, 17, 120}
PlainBlock(last) == [i \in 1..BlockSize |-> IF i = BlockSize THEN last ELSE 64 + i]

RECURSIVE BlockSeqs(_)
BlockSeqs(n) ==
    IF n = 0 THEN {<<>>}
    ELSE { PlainBlock(l) \o s : l \in LastBytes, s \in BlockSeqs(n - 1) }

Plaintexts ==
    UNION { BlockSeqs(n) : n \in 0..MaxBlocks }
    \cup { Slice(PlainBlock(0), 0, 5) }

\* bytes off the wire, of every length class
Ciphertexts ==
    { Slice(PlainBlock(120) \o PlainBlock(0), 0, n) :
        n \in {0, 5, BlockSize, BlockSize + 1, 2 * BlockSize} }

Keys == { PlainBlock(7), SubSeq(PlainBlock(7) \o PlainBlock(9), 1, 24),
          PlainBlock(7) \o PlainBlock(9), <<107, 101, 121>> }

InitAESSpec ==
    /\ SegIdle /\ DownloadIdle /\ TransferIdle /\ HandshakeIdle /\ CallersIdle
    /\ inFrames = <<>>
    /\ ClientIdle /\ ConnectIdle /\ CodecIdle /\ TailIdle
    /\ aesKey \in Keys
    /\ aesOut = [kind |-> "none", data |-> <<>>]
    /\ \/ aesPc = "plain" /\ aesPlain \in Plaintexts /\ aesCipher = <<>>
       \/ aesPc = "received" /\ aesPlain = <<>> /\ aesCipher \in Ciphertexts

Encrypt ==
    /\ aesPc = "plain"
    /\ aesCipher' = EncryptAES(aesKey, aesPlain)
    /\ aesPc' = "encrypted"
    /\ UNCHANGED <<segVars, cliVars, dlVars, xfVars, hsVars, ccVars, ctVars, cdVars,
                   tailVars, aesKey, aesPlain, aesOut>>

Decrypt ==
    /\ aesPc \in {"encrypted", "received"}
    /\ aesOut' = DecryptAES(aesKey, aesCipher)
    /\ aesPc' = IF aesPc = "encrypted" THEN "roundtrip" ELSE "decrypted"
    /\ UNCHANGED <<segVars, cliVars, dlVars, xfVars, hsVars, ccVars, ctVars, cdVars,
                   tailVars, aesKey, aesPlain, aesCipher>>

NextAES == Encrypt \/ Decrypt

SpecAES == InitAESSpec /\ [][NextAES]_vars

\* C16 as stated: decrypting what EncryptAES produced, with the same key, gives
\* back the plaintext, for every plaintext whose length is a multiple of 16.
C16_RoundTrip ==
    (aesPc = "roundtrip" /\ Len(aesPlain) % BlockSize = 0)
        => (aesOut.kind = "ok" /\ aesOut.data = aesPlain)

\* C16 (amended): for a plaintext of one or more whole blocks the round trip
\* succeeds and gives back the plaintext when its last byte is not in 1..16,
\* and the plaintext without its last n bytes when its last byte is n in 1..16.
C16_RoundTripUpToTrim ==
    (aesPc = "roundtrip" /\ Len(aesPlain) % BlockSize = 0 /\ Len(aesPlain) > 0)
        => LET n == aesPlain[Len(aesPlain)]
           IN  /\ aesOut.kind = "ok"
               /\ Len(aesCipher) = Len(aesPlain)
               /\ aesOut.data = IF n \in 1..16
                                THEN Slice(aesPlain, 0, Len(aesPlain) - n)
                                ELSE aesPlain

C16_Witness ==
    /\ aesPc = "roundtrip" /\ Len(aesPlain) = 2 * BlockSize
    /\ aesPlain[Len(aesPlain)] = 17
    /\ aesCipher # aesPlain
    /\ aesOut.kind = "ok" /\ aesOut.data = aesPlain

\* C17: DecryptAES returns an error, and does not crash, for a ciphertext of
\* length 0, below 16, or not a multiple of 16.
C17_BadLengthIsError ==
    (/\ aesPc = "decrypted"
     /\ Len(aesCipher) < BlockSize \/ Len(aesCipher) % BlockSize # 0)
        => aesOut.kind = "error"

----------------------------------------------------------------------------
(* SpecDL: the byte counters of the result *)

\* C22: in every result the call returns, ReceivedBytes is the number of bytes
\* all its reads returned and the length of RawData, and SentBytes is the
\* number of bytes the write of the request accepted.
C22_CountersMatch ==
    (dlPc = "done" /\ ~dlResult.nil)
        => (/\ dlResult.ReceivedBytes = Len(Delivered)
            /\ dlResult.ReceivedBytes = Len(dlResult.RawData)
            /\ dlResult.RawData = Delivered
            /\ dlResult.SentBytes = Len(transferRequest(DLContent)))

C22_Witness ==
    /\ dlPc = "done" /\ ~dlResult.nil
    /\ Len(totalRawResponse) > RESPONSE_HEAD_LEN + 1
    /\ lastRead.start > 0
    /\ dlResult.ReceivedBytes = Len(Wire(inFrames))
    /\ dlResult.SentBytes > RESPONSE_HEAD_LEN

----------------------------------------------------------------------------
(* SpecDL: the reconnect under the held lock, and the stream after a read
   error *)

\* C24: an exchange that finds the connection's context closed, or whose read
\* fails with "Application error 0x0", reconnects through Connect under the
\* lock it already holds and goes on: it never ends up blocked for ever on its
\* own lock.
C24_NeverBlocksOnOwnLock == ~(dlPc = "deadlock" /\ mu = "held")

\* C25: after a read error that is neither EOF nor a timeout, with attempts
\* remaining, the loop continues on a usable stream: whenever it is about to
\* set a read deadline or read, c.stream is non-nil.
C25_StreamUsableAtRead ==
    /\ dlPc = "read" => stream # "nil"
    /\ dlEnd # "nilstream"

----------------------------------------------------------------------------
(* SpecXfer: how often the request is written *)

\* the passes of the loop that reached c.stream.Write(requestInfo)
WritingPasses == { i \in 1..Len(attempts) : attempts[i].op # "open" }

\* a pass whose read returned bytes with a nil error, or bytes with EOF
ReadSucceeded(a) == a.op \in {"parsed", "short", "eofdata"}

\* C26: within one exchange the request is written once, and again only as a
\* retry after a transient write or read failure; it is never written again
\* after a read that succeeded, and the writes never exceed MaxRetries.
C26_RewriteOnlyAfterFailure ==
    /\ Cardinality(WritingPasses) <= configMaxRetries
    /\ \A i \in WritingPasses :
          i > 1 => ~ReadSucceeded(attempts[i - 1])

----------------------------------------------------------------------------
(* SpecNew: NewTransferClient. Durations are in milliseconds. *)

DefaultRetryDelay == 500        \* 500 * time.Millisecond
DefaultRetryInterval == 2000    \* 2 * time.Second

\* a variant that replaces only the zero value
DefaultIfZero(v, d) == IF v = 0 THEN d ELSE v

\* if config.X <= 0 { config.X = d }
DefaultIfNotPositive(v, d) == IF v <= 0 THEN d ELSE v

\* the defaults are written into the Config the caller passed, and the client
\* keeps that Config
ConfigWithDefaults(config) ==
    [config EXCEPT
        !.MaxRetries = NewTransferClient(config.MaxRetries).MaxRetries,
        !.RetryDelay = DefaultIfNotPositive(config.RetryDelay, DefaultRetryDelay),
        !.RetryInterval = DefaultIfNotPositive(config.RetryInterval,
                                               DefaultRetryInterval)]

NewClient(serverAddr, config) ==
    [nil |-> FALSE, serverAddr |-> serverAddr, config |-> ConfigWithDefaults(config),
     conn |-> NewTransferClient(config.MaxRetries).conn,
     stream |-> NewTransferClient(config.MaxRetries).stream]

Configs ==
    [ServerID : {0, 1}, ServerName : {"", "test-server"},
     SessionID : {"", "test-session"},
     MaxRetries : {-1, 0, 1, 3}, RetryDelay : {-5, 0, 250},
     RetryInterval : {-1, 0, 3000}]

InitNew ==
    /\ SegIdle /\ DownloadIdle /\ TransferIdle /\ HandshakeIdle /\ CallersIdle
    /\ inFrames = <<>>
    /\ ClientIdle /\ ConnectIdle /\ CodecIdle /\ AESIdle /\ ChunkedIdle /\ HTTPIdle
    /\ SaveIdle /\ EncIdle /\ LastIdle
    /\ ncPc = "config"
    /\ ncAddr \in {"", "localhost:8002"}
    /\ ncConfig \in Configs
    /\ ncClient = <<>>

\* client := NewTransferClient(serverAddr, config)
New ==
    /\ ncPc = "config"
    /\ ncClient' = NewClient(ncAddr, ncConfig)
    /\ ncConfig' = ncClient'.config
    /\ ncPc' = "new"
    /\ UNCHANGED <<segVars, cliVars, dlVars, xfVars, hsVars, ccVars, ctVars, cdVars,
                   aesVars, chVars, httpVars, svVars, encVars, lastVars,
                   ncAddr>>

NextNew == New

SpecNew == InitNew /\ [][NextNew]_vars

\* C23: NewTransferClient returns a non-nil client that keeps the server
\* address and the ServerID, ServerName and SessionID it was given, and whose
\* MaxRetries, RetryDelay and RetryInterval are positive: a non-positive value
\* is replaced by 10, 500ms and 2s, a positive value is kept.
C23_ClientKeepsConfigWithDefaults ==
    [][ncPc = "config" =>
        /\ ~ncClient'.nil
        /\ ncClient'.serverAddr = ncAddr
        /\ ncClient'.config.ServerID = ncConfig.ServerID
        /\ ncClient'.config.ServerName = ncConfig.ServerName
        /\ ncClient'.config.SessionID = ncConfig.SessionID
        /\ ncClient'.config.MaxRetries > 0
        /\ ncClient'.config.RetryDelay > 0
        /\ ncClient'.config.RetryInterval > 0
        /\ ncClient'.config.MaxRetries =
              (IF ncConfig.MaxRetries > 0 THEN ncConfig.MaxRetries ELSE 10)
        /\ ncClient'.config.RetryDelay =
              (IF ncConfig.RetryDelay > 0 THEN ncConfig.RetryDelay ELSE 500)
        /\ ncClient'.config.RetryInterval =
              (IF ncConfig.RetryInterval > 0 THEN ncConfig.RetryInterval ELSE 2000)
      ]_vars

C23_Witness ==
    /\ ncPc = "new"
    /\ ncClient.serverAddr = "localhost:8002"
    /\ ncClient.config.ServerName = "test-server"
    /\ ncClient.config.MaxRetries = 10
    /\ ncClient.config.RetryDelay = 500
    /\ ncClient.config.RetryInterval = 3000

----------------------------------------------------------------------------
(* SpecSegRaw: the segmentation pass run on any raw accumulator the read loop
   can leave behind: bytes without frames, short accumulators, and a last
   frame whose body has not arrived in full *)

MaxCut == 2            \* bytes missing at the end of the accumulator
ShortLen == 5          \* a raw accumulator shorter than a header

RawGarbages == Garbages \cup {Repeat(103, ShortLen), Repeat(103, RESPONSE_HEAD_LEN),
                              Repeat(103, RESPONSE_HEAD_LEN + 1)}

InitSegRaw ==
    /\ ClientIdle /\ DownloadIdle /\ TransferIdle /\ HandshakeIdle /\ CallersIdle
    /\ RestIdle
    /\ inGarbage \in RawGarbages
    /\ inFrames \in {<<>>} \cup FrameSeqs(MaxFrames)
    /\ \E cut \in 0..MaxCut :
         /\ cut < Len(inGarbage \o Wire(inFrames))
         /\ inFrames = <<>> => cut = 0
         /\ inFrames # <<>> => cut <= Len(inFrames[Len(inFrames)].body)
         /\ totalRawResponse = Slice(inGarbage \o Wire(inFrames), 0,
                                     Len(inGarbage \o Wire(inFrames)) - cut)
    /\ remainingRaw = totalRawResponse
    /\ pureDataBuffer = <<>>
    /\ segPc = "run"
    /\ segLast = "none"

SpecSegRaw == InitSegRaw /\ [][NextSeg]_vars

\* raw begins with a header that carries the tag and announces more bytes than
\* raw holds
IncompleteHead(raw) ==
    /\ Len(raw) >= RESPONSE_HEAD_LEN
    /\ ReadUint32(raw, 0) = HEAD_TAG
    /\ Uint32Exceeds(ReadUint32(raw, 12), Len(raw) - RESPONSE_HEAD_LEN)

\* C27: a header with a valid tag whose 20 + DataLen exceeds the bytes
\* available is incomplete, not invalid: the pass does not scan past it for
\* another tag or for "HTTP/", and its 20 header bytes never reach the pure
\* payload.
C27_IncompleteHeaderNotScanned ==
    [][(segPc = "run" /\ Len(remainingRaw) > RESPONSE_HEAD_LEN
          /\ IncompleteHead(remainingRaw))
        => /\ segLast' \notin {"http", "resync", "fallback"}
           /\ pureDataBuffer' = pureDataBuffer]_vars

\* decoding fails at the start of raw
DecodeFails(raw) ==
    LET p == parseMessage(raw, Len(raw)) IN p.respLen <= 0 \/ p.cmd = 0

\* the first MaxScanLen bytes of raw
BoundedWindow(raw) ==
    Slice(raw, 0, IF Len(raw) < MaxScanLen THEN Len(raw) ELSE MaxScanLen)

\* C28: when decoding fails at the current offset and the tag occurs within
\* the bounded scan window, the pass resynchronizes at that tag; the "HTTP/"
\* rule is applied only when no tag was found in the window, and only for an
\* "HTTP/" inside the bounded window.
C28_TagBeforeHTTP ==
    [][(segPc = "run" /\ Len(remainingRaw) > RESPONSE_HEAD_LEN
          /\ DecodeFails(remainingRaw))
        => /\ ScanValidOffset(remainingRaw) > 0
                => /\ segLast' = "resync"
                   /\ remainingRaw' = SliceFrom(remainingRaw,
                                                ScanValidOffset(remainingRaw))
           /\ segLast' = "http"
                => /\ ScanValidOffset(remainingRaw) = -1
                   /\ BytesIndex(BoundedWindow(remainingRaw), HttpPrefix) # -1]_vars

\* C29: for every non-empty raw accumulator, of any length, that holds neither
\* the tag nor "HTTP/", the pure payload is the raw accumulator.
C29_UnframedKeptVerbatim ==
    (segPc = "done" /\ Len(totalRawResponse) > 0
        /\ BytesIndex(totalRawResponse, TagBytes) = -1
        /\ BytesIndex(totalRawResponse, HttpPrefix) = -1)
        => pureDataBuffer = totalRawResponse

----------------------------------------------------------------------------
(* SpecDL: read timeouts and EOF *)

\* C30: a read timeout declares completion if the time since the last
\* non-empty read exceeds the idle threshold (ReadTimeout) and otherwise lets
\* the loop keep reading; it never closes the stream and never increments
\* retries. A read that returns EOF always declares completion, and the bytes
\* that same read returned are kept.
C30_TimeoutAndEOF ==
    [][(dlPc = "read" /\ stream # "nil") =>
        /\ lastRead'.err = "timeout" =>
             /\ stream' = stream
             /\ retries' = retries
             /\ totalRawResponse' = totalRawResponse
             /\ IF sinceLastRead' > optReadTimeout
                THEN isComplete' /\ dlPc' = "finish"
                ELSE ~isComplete' /\ dlPc' = "read"
        /\ lastRead'.err = "eof" =>
             /\ isComplete' /\ dlPc' = "finish"
             /\ stream' = stream
             /\ totalRawResponse' = totalRawResponse \o Slice(wire, 0, lastRead'.n)
      ]_vars

----------------------------------------------------------------------------
(* SpecDLFair: the download call on a transport whose every read returns; the
   call itself always takes its next step when it has one *)

SpecDLFair == SpecDL /\ WF_vars(NextDL)

\* C31: the download call always terminates: on every transport behaviour
\* made of non-empty reads, empty reads, timeouts, EOF and other errors, the
\* read loop ends (by LINK_CLOSE, EOF, idle completion, overflow or retry
\* exhaustion) and the call returns; the retry counter never exceeds
\* MaxRetries + 1.
C31_AlwaysTerminates ==
    /\ <>(dlPc = "done")
    /\ [](retries <= optMaxRetries + 1)

----------------------------------------------------------------------------
(* SpecInit: a handshake on a client that was never connected *)

\* C32: an operation called on a client that was never successfully connected
\* returns without crashing, and a handshake or exchange then returns an
\* error: no operation dereferences a nil connection or a nil stream.
C32_NeverConnectedReturnsError ==
    (conn = "nil" /\ hsPc # "start")
        => (hsPc = "done" /\ hsErr \notin {"nil", "none"})

----------------------------------------------------------------------------
(* SpecConnect: a Connect that returns an error *)

\* C33: if Connect returns an error, at whatever step it failed, the client's
\* connection and stream are the same as before the call: a pair established
\* before is neither closed nor replaced, and the client keeps no reference to
\* a connection that Connect itself closed.
C33_FailedConnectKeepsPair ==
    [][(cnLast'.op = "Connect" /\ cnLast'.err # "nil")
        => /\ connObj' = connObj /\ streamObj' = streamObj
           /\ closedConns' = closedConns /\ closedStreams' = closedStreams
           /\ connObj' \notin closedConns' \ closedConns]_vars

----------------------------------------------------------------------------
(* SpecEnc: one call of SendTransferRequest, the encrypted exchange *)

EncBufferLen == 60     \* responseBuffer (32 KB in the code), kept small here
MaxEncMsgs == 2        \* messages the peer sends
MaxEncReads == 4       \* reads followed in one call

\* if body != nil { responseBytes = append(responseBytes, body...) }; a huge
\* body is appended as HugeBody describes it
AppendBody(resp, body) ==
    IF body.kind = "ok" /\ Len(body.data) > 0 THEN Append(resp, body.data)
    ELSE IF body.kind = "huge" THEN Append(resp, body)
    ELSE resp

\* One pass through the body of the read loop after
\* c.stream.Read(responseBuffer[currentSize:]) returned rd = [n, chunk, err].
\* st = [buf, resp]; ctl: "continue", "break" or "panic"; huge when the pass
\* made a body of 2^31 bytes or more.
EncAttempt(st, rd, key) ==
    IF rd.err # "nil" \/ rd.n < 0
    THEN [buf |-> st.buf, resp |-> st.resp, ctl |-> "break", huge |-> FALSE]
    ELSE LET buf1 == st.buf \o rd.chunk
             p == parseMessageByAES(ReadBuffer(buf1, EncBufferLen), Len(buf1), key)
         IN  IF p.body.kind = "panic"
             THEN [buf |-> buf1, resp |-> st.resp, ctl |-> "panic", huge |-> FALSE]
             ELSE [buf |-> buf1, resp |-> AppendBody(st.resp, p.body),
                   ctl |-> IF p.cmd = EMM_COMMAND_LINK_CLOSE THEN "break"
                           ELSE "continue",
                   huge |-> p.body.kind = "huge"]

EncKey == PlainBlock(7)
EncPlains == { PlainBlock(120), Slice(PlainBlock(120), 0, 5) \o <<121>> }
EncMsgSet == [cmd : {EMM_COMMAND_TRAN_ACK, EMM_COMMAND_LINK_CLOSE}, plain : EncPlains]

\* the bytes the peer puts on the wire for the messages ms
RECURSIVE EncWire(_, _)
EncWire(ms, key) ==
    IF ms = <<>> THEN <<>>
    ELSE Frame([cmd |-> Head(ms).cmd, result |-> 0,
                body |-> EncryptAES(key, Head(ms).plain)])
         \o EncWire(Tail(ms), key)

\* what one Read into a slice of space bytes may return
EncReadOutcomes(w, space) ==
    { [n |-> k, chunk |-> Slice(w, 0, k), err |-> e] :
        k \in { j \in {RESPONSE_HEAD_LEN \div 2, RESPONSE_HEAD_LEN + BlockSize, Len(w),
                       space} : 1 <= j /\ j <= Len(w) /\ j <= space },
        e \in {"nil", "eof"} }
    \cup { [n |-> 0, chunk |-> <<>>, err |-> "eof"] }
    \* a Read into an empty slice returns at once
    \cup (IF space = 0 THEN { [n |-> 0, chunk |-> <<>>, err |-> "nil"] } ELSE {})

InitEnc ==
    /\ SegIdle /\ DownloadIdle /\ TransferIdle /\ HandshakeIdle /\ CallersIdle
    /\ inFrames = <<>>
    /\ conn \in {"nil", "open"}
    /\ stream = conn
    /\ connCtxErr = FALSE /\ mu = "free"
    /\ configMaxRetries = NewTransferClient(0).MaxRetries
    /\ ConnectIdle /\ CodecIdle /\ AESIdle /\ ChunkedIdle /\ HTTPIdle
    /\ NewIdle /\ SaveIdle /\ LastIdle
    /\ enPc = "start"
    /\ enKey = EncKey
    /\ enIn \in UNION { [1..k -> EncMsgSet] : k \in 1..MaxEncMsgs }
    /\ enWire = EncWire(enIn, enKey)
    /\ enBuf = <<>> /\ enResp = <<>> /\ enReads = 0

\* the call up to the loop: no lock, no check of c.stream
EncStart ==
    /\ enPc = "start"
    /\ IF stream = "nil" THEN enPc' = "panic"
       ELSE \E written \in BOOLEAN : enPc' = IF written THEN "read" ELSE "failed"
    /\ UNCHANGED <<segVars, cliVars, dlVars, xfVars, hsVars, ccVars, ctVars, cdVars,
                   aesVars, chVars, httpVars, ncVars, svVars, lastVars, enKey, enIn, enWire,
                   enBuf, enResp, enReads>>

\* one pass through the read loop, and the return when the pass leaves it
EncRead ==
    /\ enPc = "read"
    /\ enReads < MaxEncReads
    /\ \E rd \in EncReadOutcomes(enWire, EncBufferLen - Len(enBuf)) :
        LET it == EncAttempt([buf |-> enBuf, resp |-> enResp], rd, enKey)
        IN  /\ enWire' = SliceFrom(enWire, rd.n)
            /\ enBuf' = it.buf
            /\ enResp' = it.resp
            /\ \/ enPc' = CASE it.ctl = "continue" -> "read"
                            [] it.ctl = "break" -> "done"
                            [] OTHER -> "panic"
               \* no memory for the body: the runtime ends the program
               \/ it.huge /\ enPc' = "oom"
    /\ enReads' = enReads + 1
    /\ UNCHANGED <<segVars, cliVars, dlVars, xfVars, hsVars, ccVars, ctVars, cdVars,
                   aesVars, chVars, httpVars, ncVars, svVars, lastVars, enKey, enIn>>

NextEnc == EncStart \/ EncRead

SpecEnc == InitEnc /\ [][NextEnc]_vars

\* the messages of ms that lie whole within the first n bytes of the wire, up
\* to and including the first LINK_CLOSE
RECURSIVE WholeMessages(_, _, _)
WholeMessages(ms, key, n) ==
    IF ms = <<>> THEN <<>>
    ELSE LET len == Len(EncWire(<<Head(ms)>>, key)) IN
         IF len > n THEN <<>>
         ELSE IF Head(ms).cmd = EMM_COMMAND_LINK_CLOSE THEN <<Head(ms)>>
         ELSE <<Head(ms)>> \o WholeMessages(Tail(ms), key, n - len)

\* C34: SendTransferRequest returns the decrypted body of each response
\* message it received exactly once, in arrival order, and returns after
\* finitely many reads: no body is appended more than once, and the call does
\* not go on reading once its receive buffer is full.
C34_EachBodyOnce ==
    /\ enPc = "done"
         => LET ms == WholeMessages(enIn, enKey, Len(enBuf))
            IN  enResp = [i \in 1..Len(ms) |->
                            DecryptAES(enKey, EncryptAES(enKey, ms[i].plain)).data]
    /\ enPc = "read" => Len(enBuf) < EncBufferLen

----------------------------------------------------------------------------
(* SpecInitFair: the handshake when every transport call returns *)

\* Read runs under a deadline, and Write, OpenStreamSync and time.Sleep return
SpecInitFair == SpecInit /\ WF_vars(NextInit)

\* bytes that hold a whole frame: the tag, the header and the body it declares
CompleteValidFrame(b) ==
    /\ Len(b) >= RESPONSE_HEAD_LEN
    /\ Slice(b, 0, 4) = TagBytes
    /\ ~Uint32Exceeds(ReadUint32(b, 12), Len(b) - RESPONSE_HEAD_LEN)

\* C35: SendInitRequestNoAES always returns, after at most MaxRetries reads
\* and at most MaxRetries writes of the init message; the client lock is free
\* on every return; and it returns an error whenever its last read (the only
\* one it parses before returning) did not produce a complete valid frame.
C35_BoundedHandshake ==
    /\ (hsKind = "noaes") ~> (hsPc = "done")
    /\ [](hsKind = "noaes" =>
            /\ hsReads <= configMaxRetries
            /\ hsWrites <= configMaxRetries
            /\ (hsPc = "done" => mu = "free")
            /\ (hsPc = "done" /\ ~CompleteValidFrame(hsChunk))
                  => hsErr \notin {"nil", "none"})

\* a handshake that used all its reads and all its writes, reopening the
\* stream after each EOF, and returned an error with the lock free
C35_Witness ==
    /\ hsKind = "noaes" /\ hsPc = "done" /\ mu = "free"
    /\ configMaxRetries = HsMaxRetries
    /\ hsReads = configMaxRetries /\ hsWrites = configMaxRetries
    /\ ~CompleteValidFrame(hsChunk) /\ hsErr \notin {"nil", "none"}

----------------------------------------------------------------------------
(* SpecApi: one call of SendQuicRequest *)

ApiMaxRetries == 2     \* opts.MaxRetries is 0..ApiMaxRetries

RequestOptionsSet ==
    [ServerIP : {"", "127.0.0.1"}, ServerPort : {"", "8002"}, ServerID : {0, 1},
     ServerName : {"", "name"}, SessionID : {"", "sid"},
     MessageContent : {"", "GET /"}, MaxRetries : 0..ApiMaxRetries]

\* the checks at the head of SendQuicRequest: the error they report, or "nil"
ValidateOptions(opts) ==
    IF opts.ServerIP = "" \/ opts.ServerPort = "" THEN "address"
    ELSE IF opts.ServerID = 0 \/ opts.ServerName = "" \/ opts.SessionID = ""
    THEN "server"
    ELSE IF opts.MessageContent = "" THEN "content"
    ELSE "nil"

\* c.conn and c.stream are set: a Connect returned nil
Connected(trace) ==
    \E k \in 1..Len(trace) : trace[k].op = "Connect" /\ trace[k].ok

InitApi ==
    /\ SegIdle /\ DownloadIdle /\ TransferIdle /\ HandshakeIdle /\ CallersIdle
    /\ inFrames = <<>>
    /\ ClientIdle /\ ConnectIdle /\ CodecIdle /\ AESIdle /\ ChunkedIdle /\ HTTPIdle
    /\ NewIdle /\ SaveIdle /\ EncIdle /\ PureIdle
    /\ apPc = "start"
    /\ apOpts \in RequestOptionsSet
    /\ apI = 0 /\ apConnErr = "nil"
    /\ apTrace = <<>>
    /\ apResult = [Success |-> FALSE, Error |-> "nil"]

\* the validation of the options
ApiValidate ==
    /\ apPc = "start"
    /\ IF ValidateOptions(apOpts) # "nil"
       THEN /\ apResult' = [apResult EXCEPT !.Error = ValidateOptions(apOpts)]
            /\ apPc' = "done"
       ELSE /\ apPc' = "connect"
            /\ UNCHANGED apResult
    /\ UNCHANGED <<segVars, cliVars, dlVars, xfVars, hsVars, ccVars, ctVars, cdVars,
                   aesVars, chVars, httpVars, ncVars, svVars, encVars, pureVars,
                   apOpts, apI, apConnErr, apTrace>>

\* for i := 0; i < opts.MaxRetries; i++ { err = c.Connect(ctx) ... } and the
\* test of err after the loop
ApiConnect ==
    /\ apPc = "connect"
    /\ IF apI < apOpts.MaxRetries
       THEN \E ok \in BOOLEAN :
            /\ apTrace' = Append(apTrace, [op |-> "Connect", ok |-> ok])
            /\ apConnErr' = IF ok THEN "nil" ELSE "connect"
            /\ IF ok THEN apPc' = "init" /\ UNCHANGED apI
               ELSE IF apI + 1 < apOpts.MaxRetries
               THEN apPc' = "connect" /\ apI' = apI + 1
               ELSE apPc' = "done" /\ apI' = apI + 1
            /\ apResult' = IF ~ok /\ apI + 1 >= apOpts.MaxRetries
                           THEN [apResult EXCEPT !.Error = "connect"]
                           ELSE apResult
       ELSE /\ apPc' = IF apConnErr # "nil" THEN "done" ELSE "init"
            /\ apResult' = IF apConnErr # "nil"
                           THEN [apResult EXCEPT !.Error = "connect"]
                           ELSE apResult
            /\ UNCHANGED <<apI, apConnErr, apTrace>>
    /\ UNCHANGED <<segVars, cliVars, dlVars, xfVars, hsVars, ccVars, ctVars, cdVars,
                   aesVars, chVars, httpVars, ncVars, svVars, encVars, pureVars,
                   apOpts>>

\* c.SendInitRequestNoAES(), which fails at once on a client without a stream
ApiInit ==
    /\ apPc = "init"
    /\ \E ok \in (IF Connected(apTrace) THEN BOOLEAN ELSE {FALSE}) :
        /\ apTrace' = Append(apTrace, [op |-> "SendInitRequestNoAES", ok |-> ok])
        /\ IF ok THEN apPc' = "transfer" /\ UNCHANGED apResult
           ELSE /\ apPc' = "close"
                /\ apResult' = [apResult EXCEPT !.Error = "init"]
    /\ UNCHANGED <<segVars, cliVars, dlVars, xfVars, hsVars, ccVars, ctVars, cdVars,
                   aesVars, chVars, httpVars, ncVars, svVars, encVars, pureVars,
                   apOpts, apI, apConnErr>>

\* c.SendTransferRequestNoAES(opts.MessageContent): it returns a response or
\* an error, or never returns (it calls c.Connect with c.mu held)
ApiTransfer ==
    /\ apPc = "transfer"
    /\ \E out \in {"ok", "error", "blocked"} :
        /\ apTrace' = Append(apTrace, [op |-> "SendTransferRequestNoAES",
                                       ok |-> out = "ok"])
        /\ apPc' = IF out = "blocked" THEN "blocked" ELSE "close"
        /\ apResult' = CASE out = "ok" -> [apResult EXCEPT !.Success = TRUE]
                         [] out = "error" -> [apResult EXCEPT !.Error = "transfer"]
                         [] OTHER -> apResult
    /\ UNCHANGED <<segVars, cliVars, dlVars, xfVars, hsVars, ccVars, ctVars, cdVars,
                   aesVars, chVars, httpVars, ncVars, svVars, encVars, pureVars,
                   apOpts, apI, apConnErr>>

\* defer c.Close(), run when the function returns
ApiClose ==
    /\ apPc = "close"
    /\ apTrace' = Append(apTrace, [op |-> "Close", ok |-> TRUE])
    /\ apPc' = "done"
    /\ UNCHANGED <<segVars, cliVars, dlVars, xfVars, hsVars, ccVars, ctVars, cdVars,
                   aesVars, chVars, httpVars, ncVars, svVars, encVars, pureVars,
                   apOpts, apI, apConnErr, apResult>>

NextApi == ApiValidate \/ ApiConnect \/ ApiInit \/ ApiTransfer \/ ApiClose

SpecApi == InitApi /\ [][NextApi]_vars

\* the position in the order validation, Connect, handshake, transfer, Close
StepRank(op) ==
    CASE op = "Connect" -> 1
      [] op = "SendInitRequestNoAES" -> 2
      [] op = "SendTransferRequestNoAES" -> 3
      [] OTHER -> 4

CallsOf(trace, op) == { k \in 1..Len(trace) : trace[k].op = op }

\* C36: in every run of SendQuicRequest the steps occur in the order
\* validation, at most MaxRetries Connect attempts, handshake, transfer, Close:
\* no Connect when a required option is empty, the handshake only after a
\* Connect succeeded, the transfer only after the handshake succeeded, Close on
\* every return after the connect phase, and Success only with a nil Error.
C36_StepsInOrder ==
    /\ \A j, k \in 1..Len(apTrace) :
          j < k => /\ StepRank(apTrace[j].op) <= StepRank(apTrace[k].op)
                   /\ (apTrace[k].op # "Connect" => apTrace[j].op # apTrace[k].op)
    /\ Cardinality(CallsOf(apTrace, "Connect")) <= apOpts.MaxRetries
    /\ (apPc # "idle" /\ ValidateOptions(apOpts) # "nil") => apTrace = <<>>
    /\ CallsOf(apTrace, "SendInitRequestNoAES") # {} => Connected(apTrace)
    /\ CallsOf(apTrace, "SendTransferRequestNoAES") # {}
          => \E k \in CallsOf(apTrace, "SendInitRequestNoAES") : apTrace[k].ok
    /\ (apPc = "done" /\ CallsOf(apTrace, "SendInitRequestNoAES") # {})
          => apTrace[Len(apTrace)].op = "Close"
    /\ (apPc # "idle" /\ apResult.Success) => apResult.Error = "nil"

----------------------------------------------------------------------------
(* SpecParse: parseMessage applied to one buffer *)

MaxDrop == 2           \* bytes missing at the end of the buffer
ParseBodies == {<<>>, <<120>>, <<120, 121>>}

\* a frame, possibly with a wrong tag, followed by extra bytes and cut short
ParseBuffers ==
    { LET f == Frame([cmd |-> c, result |-> AUTH_STATUS_CODE_SUCCESS, body |-> b])
          g == IF tagged THEN f ELSE <<70>> \o Tail(f)
          h == g \o extra
      IN  Slice(h, 0, Len(h) - drop) :
        c \in {EMM_COMMAND_INIT_ACK, EMM_COMMAND_TRAN_ACK}, b \in ParseBodies,
        tagged \in BOOLEAN, extra \in {<<>>, <<69>>}, drop \in 0..MaxDrop }
    \cup { Slice(Frame([cmd |-> EMM_COMMAND_TRAN_ACK, result |-> 0, body |-> <<>>]),
                 0, RESPONSE_HEAD_LEN \div 2) }

InitParse ==
    /\ SegIdle /\ DownloadIdle /\ TransferIdle /\ HandshakeIdle /\ CallersIdle
    /\ inFrames = <<>>
    /\ ClientIdle /\ ConnectIdle /\ CodecIdle /\ AESIdle /\ ChunkedIdle /\ HTTPIdle
    /\ NewIdle /\ SaveIdle /\ EncIdle /\ ApiIdle
    /\ puPc = "input"
    /\ \E m \in ParseBuffers, short \in 0..1 :
          /\ short <= Len(m)
          /\ puIn = [message |-> m, msgLength |-> Len(m) - short]
    /\ puOut = <<>>

CallParseMessage ==
    /\ puPc = "input"
    /\ puOut' = parseMessage(puIn.message, puIn.msgLength)
    /\ puPc' = "applied"
    /\ UNCHANGED <<segVars, cliVars, dlVars, xfVars, hsVars, ccVars, ctVars, cdVars,
                   aesVars, chVars, httpVars, ncVars, svVars, encVars, apiVars, puIn>>

NextParse == CallParseMessage

SpecParse == InitParse /\ [][NextParse]_vars

\* C37: whenever parseMessage reports a message (returned length > 0), the
\* returned length is 20 + DataLen and does not exceed the bytes supplied, the
\* tag of the buffer is the magic constant, and the returned body is exactly
\* the DataLen bytes that follow the header.
C37_ReportedMessageIsWhole ==
    (puPc = "applied" /\ puOut.respLen > 0)
        => /\ Len(puIn.message) >= RESPONSE_HEAD_LEN
           /\ puOut.dataLen = ReadUint32(puIn.message, 12)
           /\ puOut.respLen = RESPONSE_HEAD_LEN + puOut.dataLen
           /\ puOut.respLen <= puIn.msgLength
           /\ puOut.respLen <= Len(puIn.message)
           /\ Slice(puIn.message, 0, 4) = TagBytes
           /\ Len(puOut.body) = puOut.dataLen
           /\ \A k \in 1..puOut.dataLen :
                 puOut.body[k] = puIn.message[RESPONSE_HEAD_LEN + k]

\* a frame with a two-byte body reported from a buffer that holds more bytes
C37_Witness ==
    /\ puPc = "applied" /\ puOut.respLen > 0
    /\ puOut.dataLen = 2 /\ puOut.body = <<120, 121>>
    /\ puOut.respLen < puIn.msgLength

----------------------------------------------------------------------------
(* SpecChunkedRaw: parseChunkedBody on bodies that are not well formed *)

\* size lines: empty, "zz", "-1", "ff", "5", "5;x", " 3 ", the largest int64
\* "7fffffffffffffff" and "8000000000000000", which is outside int64
RawSizeLines ==
    { <<>>, <<122, 122>>, <<45, 49>>, <<102, 102>>, <<53>>, <<53, 59, 120>>,
      <<32, 51, 32>>, <<55>> \o Repeat(102, Int64HexLen - 1),
      <<56>> \o Repeat(48, Int64HexLen - 1) }

\* what follows the size line: nothing, "ab", "abcde", and "abc" with its
\* CRLF and a zero-size chunk
RawRests ==
    { <<>>, <<97, 98>>, <<97, 98, 99, 100, 101>>,
      <<97, 98, 99>> \o CRLF \o <<48>> \o CRLF \o CRLF }

\* well-formed chunks without the zero-size chunk after them
RECURSIVE EncodeOpenChunks(_)
EncodeOpenChunks(chunks) ==
    IF chunks = <<>> THEN <<>>
    ELSE FormatHex(Len(Head(chunks)), FALSE) \o CRLF \o Head(chunks) \o CRLF
         \o EncodeOpenChunks(Tail(chunks))

InitChunkedRaw ==
    /\ SegIdle /\ DownloadIdle /\ TransferIdle /\ HandshakeIdle /\ CallersIdle
    /\ inFrames = <<>>
    /\ ClientIdle /\ ConnectIdle /\ CodecIdle /\ AESIdle /\ HTTPIdle /\ EndIdle
    /\ chPc = "body"
    /\ chIn \in [chunks : ChunkLists(1), line : RawSizeLines, end : {CRLF, LF},
                 rest : RawRests]
    /\ chData = EncodeOpenChunks(chIn.chunks) \o chIn.line \o chIn.end \o chIn.rest
    /\ chOut = NoOutcome

SpecChunkedRaw == InitChunkedRaw /\ [][NextChunked]_vars

\* the size a size line of hexadecimal digits declares exceeds n
DeclaresMoreThan(line, n) ==
    /\ line # <<>>
    /\ \A i \in 1..Len(line) : HexDigit(line[i]) # -1
    /\ (~FitsInt32(StripZeros(line)) \/ HexValue(line, 0) > n)

\* C38: when a chunk's declared size exceeds the bytes that remain after its
\* size line, parseChunkedBody copies the available bytes as that chunk's data
\* and stops: it returns, without error, the data decoded so far followed by
\* those bytes.
C38_TruncatedChunkClamped ==
    (/\ chPc = "parsed" /\ chIn.end = CRLF
     /\ DeclaresMoreThan(chIn.line, Len(chIn.rest))
     /\ (Len(chIn.line) < Int64HexLen \/ HexDigit(chIn.line[1]) < 8))
        => /\ chOut.kind = "ok"
           /\ chOut.data = ConcatAll(chIn.chunks) \o chIn.rest

\* C39: for every input, also with a size line that is empty, not
\* hexadecimal, negative or larger than the remaining data, parseChunkedBody
\* returns decoded bytes or an error: it never indexes outside its input.
C39_ReturnsDataOrError ==
    chPc = "parsed" => chOut.kind \in {"ok", "error"}

----------------------------------------------------------------------------
(* SpecClean: cleanEMMHeader applied to one content *)

CleanHeader == Frame([cmd |-> EMM_COMMAND_TRAN_ACK, result |-> 0, body |-> <<>>])

\* the content: bytes, a frame header or none, bytes, a header or none, bytes
CleanInputs ==
    { pre \o (IF h1 THEN CleanHeader ELSE <<>>) \o mid
          \o (IF h2 THEN CleanHeader ELSE <<>>) \o suf :
        pre \in {<<>>, <<97>>, <<69, 77>>}, h1 \in BOOLEAN,
        mid \in {<<>>, <<98>>, <<77, 58>> \o Repeat(99, EMMHeaderLen)},
        h2 \in BOOLEAN,
        suf \in {<<>>, <<120, 121, 122>>, <<118, 119, 120, 121, 122>>} }

InitClean ==
    /\ SegIdle /\ DownloadIdle /\ TransferIdle /\ HandshakeIdle /\ CallersIdle
    /\ inFrames = <<>>
    /\ ClientIdle /\ ConnectIdle /\ CodecIdle /\ AESIdle /\ ChunkedIdle /\ HTTPIdle
    /\ NewIdle /\ SaveIdle /\ EncIdle /\ ApiIdle
    /\ puPc = "input"
    /\ puIn \in CleanInputs
    /\ puOut = <<>>

CallCleanEMMHeader ==
    /\ puPc = "input"
    /\ puOut' = cleanEMMHeader(puIn)
    /\ puPc' = "applied"
    /\ UNCHANGED <<segVars, cliVars, dlVars, xfVars, hsVars, ccVars, ctVars, cdVars,
                   aesVars, chVars, httpVars, ncVars, svVars, encVars, apiVars, puIn>>

NextClean == CallCleanEMMHeader

SpecClean == InitClean /\ [][NextClean]_vars

\* the zero-based positions of "EMM:" in s with 20 bytes available from there
HeaderStarts(s) ==
    { i \in 0..(Len(s) - EMMHeaderLen) : Slice(s, i, i + 4) = TagBytes }

\* s without the bytes of the 20-byte windows that start at the positions in c
RECURSIVE Without(_, _, _)
Without(s, c, i) ==
    IF i >= Len(s) THEN <<>>
    ELSE (IF \E j \in c : j <= i /\ i < j + EMMHeaderLen THEN <<>> ELSE <<s[i + 1]>>)
         \o Without(s, c, i + 1)

\* C40: the output of cleanEMMHeader contains no "EMM:" that still has 20
\* bytes available from its start (so a second application changes nothing),
\* it is the input without the bytes of stripped 20-byte headers, every other
\* byte kept in order, and an input without such an occurrence is returned
\* unchanged.
C40_NoHeaderLeft ==
    puPc = "applied"
        => /\ HeaderStarts(puOut) = {}
           /\ cleanEMMHeader(puOut) = puOut
           /\ \E c \in SUBSET HeaderStarts(puIn) : puOut = Without(puIn, c, 0)
           /\ (HeaderStarts(puIn) = {} => puOut = puIn)

============================================================================
